---------------------------- MODULE Spec2Model ----------------------------
(***************************************************************************)
(* NYC taxi pipeline: the Fetcher (lambda/ingestion.py) and the Trigger    *)
(* (lambda/processing_trigger.py).                                         *)
(*                                                                         *)
(* Each handler is a pure operator of the responses its collaborators give *)
(* (storage, HTTP source, metrics backend, secret store, job API) and      *)
(* yields the handler's outcome together with the log of every external    *)
(* call it made, in order.  Python text (str) is the sequence of its       *)
(* characters, each the number of its Unicode code point; the names the    *)
(* code hands on as they are (of a call, a metric, a namespace, a unit, a  *)
(* dimension, an environment variable, an exception class) are strings.    *)
(* Python's None is the empty set and a present optional value x is {x}.   *)
(* An exception is the name of its class in field exc.                     *)
(***************************************************************************)
EXTENDS Integers, Sequences, FiniteSets, TLC

VARIABLES
    s3,           \* the bucket: the set of object keys it holds
    concurrency,  \* how many invocations the platform runs at the same time
    fpc,          \* Fetcher invocation p: "idle", "invoked", "checked", "done"
    fin,          \* Fetcher invocation p: the time and the responses it received
    fcw,          \* Fetcher invocation p: the metrics backend's answers (TRUE accepts)
    flog,         \* Fetcher invocation p: the external calls made so far
    fres,         \* Fetcher invocation p: how the handler ended
    tpc,          \* Trigger invocation: "idle", "invoked", "done"
    tin,          \* Trigger invocation: the notification and the responses received
    tcw,          \* Trigger invocation: the metrics backend's answers
    tlog,         \* Trigger invocation: the external calls made
    tres          \* Trigger invocation: how the handler ended

vars == <<s3, concurrency, fpc, fin, fcw, flog, fres, tpc, tin, tcw, tlog, tres>>
fvars == <<fpc, fin, fcw, flog, fres>>
tvars == <<tpc, tin, tcw, tlog, tres>>

---------------------------------------------------------------------------
(* Bounds of the model. *)

\* Fetcher invocations the platform may hold at once.
MaxProcs == 2
\* A remote call takes 1..MaxDur time units.
MaxDur == 2

Procs == 1..MaxProcs
Durs == 1..MaxDur

---------------------------------------------------------------------------
(* Python values. *)

None == {}
Some(x) == {x}
The(o) == CHOOSE x \in o : TRUE

Min(a, b) == IF a <= b THEN a ELSE b

\* The text of an ASCII string: U("year=") is the Python text 'year='.
Ascii ==
    " !\"#$%&'()*+,-./0123456789:;<=>?@ABCDEFGHIJKLMNOPQRSTUVWXYZ[\\]^_"
    \o SubSeq("`'", 1, 1) \o "abcdefghijklmnopqrstuvwxyz{|}~"
OrdOf ==
    [c \in {SubSeq(Ascii, i, i) : i \in 1..Len(Ascii)} |->
        31 + CHOOSE i \in 1..Len(Ascii) : SubSeq(Ascii, i, i) = c]
RECURSIVE U(_)
U(s) == IF Len(s) = 0 THEN <<>>
        ELSE IF Len(s) = 1 THEN <<OrdOf[s]>>
        ELSE U(SubSeq(s, 1, Len(s) \div 2)) \o U(SubSeq(s, (Len(s) \div 2) + 1, Len(s)))

\* str(n) for n >= 0
RECURSIVE str(_)
str(n) == IF n < 10 THEN <<48 + n>>
          ELSE str(n \div 10) \o <<48 + (n % 10)>>

\* A faulty variant of zfill: no padding.
zfill_none(s, width) == s

\* s.zfill(width) for unsigned s
RECURSIVE zfill(_, _)
zfill(s, width) == IF Len(s) >= width THEN s ELSE zfill(<<48>> \o s, width)

\* sub in s
Contains(s, sub) ==
    \E i \in 1..(Len(s) - Len(sub) + 1) : SubSeq(s, i, i + Len(sub) - 1) = sub

\* A faulty variant of EndsWith: the suffix is looked for anywhere in s.
EndsWith_anywhere(s, suffix) == Contains(s, suffix)

\* s.endswith(suffix)
EndsWith(s, suffix) ==
    /\ Len(s) >= Len(suffix)
    /\ SubSeq(s, Len(s) - Len(suffix) + 1, Len(s)) = suffix

\* s[:n]
Truncate(s, n) == SubSeq(s, 1, Min(n, Len(s)))

\* The decimal digits of Unicode (category Nd, Unicode 14.0 as Python 3.11
\* carries it): the digits 0-9 of every script follow one another, and
\* DecimalZeros holds the zero of each script.  The pattern \d of re on a str
\* matches exactly these characters, and int() reads each as its value.
DecimalZeros ==
    {
     48, 1632, 1776, 1984, 2406, 2534, 2662, 2790, 2918, 3046, 3174, 3302, 3430, 3558, 3664,
     3792, 3872, 4160, 4240, 6112, 6160, 6470, 6608, 6784, 6800, 6992, 7088, 7232, 7248, 42528,
     43216, 43264, 43472, 43504, 43600, 44016, 65296, 66720, 68912, 69734, 69872, 69942, 70096,
     70384, 70736, 70864, 71248, 71360, 71472, 71904, 72016, 72784, 73040, 73120, 92768, 92864,
     93008, 120782, 120792, 120802, 120812, 120822, 123200, 123632, 125264, 130032
    }
IsDigit(c) == \E z \in DecimalZeros : c \in z..(z + 9)
\* The value 0..9 of a decimal digit.
DigitOf(c) == c - (CHOOSE z \in DecimalZeros : c \in z..(z + 9))

\* The value of a run of digits: leading zeros add nothing.
RECURSIVE SignificantValue(_)
SignificantValue(s) ==
    IF s = <<>> THEN 0
    ELSE 10 * SignificantValue(SubSeq(s, 1, Len(s) - 1)) + DigitOf(s[Len(s)])
DigitsValue(s) ==
    LET significant == {i \in 1..Len(s) : DigitOf(s[i]) # 0}
    IN  IF significant = {} THEN 0
        ELSE SignificantValue(SubSeq(s, CHOOSE i \in significant :
                                            \A j \in significant : i <= j, Len(s)))

\* The characters that are not printable (str.isprintable is false), as
\* ranges <<first, last>> of code points; repr escapes them.
NonPrintable ==
    <<
     <<0, 31>>, <<127, 160>>, <<173, 173>>, <<888, 889>>, <<896, 899>>, <<907, 907>>,
     <<909, 909>>, <<930, 930>>, <<1328, 1328>>, <<1367, 1368>>, <<1419, 1420>>,
     <<1424, 1424>>, <<1480, 1487>>, <<1515, 1518>>, <<1525, 1541>>, <<1564, 1564>>,
     <<1757, 1757>>, <<1806, 1807>>, <<1867, 1868>>, <<1970, 1983>>, <<2043, 2044>>,
     <<2094, 2095>>, <<2111, 2111>>, <<2140, 2141>>, <<2143, 2143>>, <<2155, 2159>>,
     <<2191, 2199>>, <<2274, 2274>>, <<2436, 2436>>, <<2445, 2446>>, <<2449, 2450>>,
     <<2473, 2473>>, <<2481, 2481>>, <<2483, 2485>>, <<2490, 2491>>, <<2501, 2502>>,
     <<2505, 2506>>, <<2511, 2518>>, <<2520, 2523>>, <<2526, 2526>>, <<2532, 2533>>,
     <<2559, 2560>>, <<2564, 2564>>, <<2571, 2574>>, <<2577, 2578>>, <<2601, 2601>>,
     <<2609, 2609>>, <<2612, 2612>>, <<2615, 2615>>, <<2618, 2619>>, <<2621, 2621>>,
     <<2627, 2630>>, <<2633, 2634>>, <<2638, 2640>>, <<2642, 2648>>, <<2653, 2653>>,
     <<2655, 2661>>, <<2679, 2688>>, <<2692, 2692>>, <<2702, 2702>>, <<2706, 2706>>,
     <<2729, 2729>>, <<2737, 2737>>, <<2740, 2740>>, <<2746, 2747>>, <<2758, 2758>>,
     <<2762, 2762>>, <<2766, 2767>>, <<2769, 2783>>, <<2788, 2789>>, <<2802, 2808>>,
     <<2816, 2816>>, <<2820, 2820>>, <<2829, 2830>>, <<2833, 2834>>, <<2857, 2857>>,
     <<2865, 2865>>, <<2868, 2868>>, <<2874, 2875>>, <<2885, 2886>>, <<2889, 2890>>,
     <<2894, 2900>>, <<2904, 2907>>, <<2910, 2910>>, <<2916, 2917>>, <<2936, 2945>>,
     <<2948, 2948>>, <<2955, 2957>>, <<2961, 2961>>, <<2966, 2968>>, <<2971, 2971>>,
     <<2973, 2973>>, <<2976, 2978>>, <<2981, 2983>>, <<2987, 2989>>, <<3002, 3005>>,
     <<3011, 3013>>, <<3017, 3017>>, <<3022, 3023>>, <<3025, 3030>>, <<3032, 3045>>,
     <<3067, 3071>>, <<3085, 3085>>, <<3089, 3089>>, <<3113, 3113>>, <<3130, 3131>>,
     <<3141, 3141>>, <<3145, 3145>>, <<3150, 3156>>, <<3159, 3159>>, <<3163, 3164>>,
     <<3166, 3167>>, <<3172, 3173>>, <<3184, 3190>>, <<3213, 3213>>, <<3217, 3217>>,
     <<3241, 3241>>, <<3252, 3252>>, <<3258, 3259>>, <<3269, 3269>>, <<3273, 3273>>,
     <<3278, 3284>>, <<3287, 3292>>, <<3295, 3295>>, <<3300, 3301>>, <<3312, 3312>>,
     <<3315, 3327>>, <<3341, 3341>>, <<3345, 3345>>, <<3397, 3397>>, <<3401, 3401>>,
     <<3408, 3411>>, <<3428, 3429>>, <<3456, 3456>>, <<3460, 3460>>, <<3479, 3481>>,
     <<3506, 3506>>, <<3516, 3516>>, <<3518, 3519>>, <<3527, 3529>>, <<3531, 3534>>,
     <<3541, 3541>>, <<3543, 3543>>, <<3552, 3557>>, <<3568, 3569>>, <<3573, 3584>>,
     <<3643, 3646>>, <<3676, 3712>>, <<3715, 3715>>, <<3717, 3717>>, <<3723, 3723>>,
     <<3748, 3748>>, <<3750, 3750>>, <<3774, 3775>>, <<3781, 3781>>, <<3783, 3783>>,
     <<3790, 3791>>, <<3802, 3803>>, <<3808, 3839>>, <<3912, 3912>>, <<3949, 3952>>,
     <<3992, 3992>>, <<4029, 4029>>, <<4045, 4045>>, <<4059, 4095>>, <<4294, 4294>>,
     <<4296, 4300>>, <<4302, 4303>>, <<4681, 4681>>, <<4686, 4687>>, <<4695, 4695>>,
     <<4697, 4697>>, <<4702, 4703>>, <<4745, 4745>>, <<4750, 4751>>, <<4785, 4785>>,
     <<4790, 4791>>, <<4799, 4799>>, <<4801, 4801>>, <<4806, 4807>>, <<4823, 4823>>,
     <<4881, 4881>>, <<4886, 4887>>, <<4955, 4956>>, <<4989, 4991>>, <<5018, 5023>>,
     <<5110, 5111>>, <<5118, 5119>>, <<5760, 5760>>, <<5789, 5791>>, <<5881, 5887>>,
     <<5910, 5918>>, <<5943, 5951>>, <<5972, 5983>>, <<5997, 5997>>, <<6001, 6001>>,
     <<6004, 6015>>, <<6110, 6111>>, <<6122, 6127>>, <<6138, 6143>>, <<6158, 6158>>,
     <<6170, 6175>>, <<6265, 6271>>, <<6315, 6319>>, <<6390, 6399>>, <<6431, 6431>>,
     <<6444, 6447>>, <<6460, 6463>>, <<6465, 6467>>, <<6510, 6511>>, <<6517, 6527>>,
     <<6572, 6575>>, <<6602, 6607>>, <<6619, 6621>>, <<6684, 6685>>, <<6751, 6751>>,
     <<6781, 6782>>, <<6794, 6799>>, <<6810, 6815>>, <<6830, 6831>>, <<6863, 6911>>,
     <<6989, 6991>>, <<7039, 7039>>, <<7156, 7163>>, <<7224, 7226>>, <<7242, 7244>>,
     <<7305, 7311>>, <<7355, 7356>>, <<7368, 7375>>, <<7419, 7423>>, <<7958, 7959>>,
     <<7966, 7967>>, <<8006, 8007>>, <<8014, 8015>>, <<8024, 8024>>, <<8026, 8026>>,
     <<8028, 8028>>, <<8030, 8030>>, <<8062, 8063>>, <<8117, 8117>>, <<8133, 8133>>,
     <<8148, 8149>>, <<8156, 8156>>, <<8176, 8177>>, <<8181, 8181>>, <<8191, 8207>>,
     <<8232, 8239>>, <<8287, 8303>>, <<8306, 8307>>, <<8335, 8335>>, <<8349, 8351>>,
     <<8385, 8399>>, <<8433, 8447>>, <<8588, 8591>>, <<9255, 9279>>, <<9291, 9311>>,
     <<11124, 11125>>, <<11158, 11158>>, <<11508, 11512>>, <<11558, 11558>>, <<11560, 11564>>,
     <<11566, 11567>>, <<11624, 11630>>, <<11633, 11646>>, <<11671, 11679>>, <<11687, 11687>>,
     <<11695, 11695>>, <<11703, 11703>>, <<11711, 11711>>, <<11719, 11719>>, <<11727, 11727>>,
     <<11735, 11735>>, <<11743, 11743>>, <<11870, 11903>>, <<11930, 11930>>, <<12020, 12031>>,
     <<12246, 12271>>, <<12284, 12288>>, <<12352, 12352>>, <<12439, 12440>>, <<12544, 12548>>,
     <<12592, 12592>>, <<12687, 12687>>, <<12772, 12783>>, <<12831, 12831>>, <<42125, 42127>>,
     <<42183, 42191>>, <<42540, 42559>>, <<42744, 42751>>, <<42955, 42959>>, <<42962, 42962>>,
     <<42964, 42964>>, <<42970, 42993>>, <<43053, 43055>>, <<43066, 43071>>, <<43128, 43135>>,
     <<43206, 43213>>, <<43226, 43231>>, <<43348, 43358>>, <<43389, 43391>>, <<43470, 43470>>,
     <<43482, 43485>>, <<43519, 43519>>, <<43575, 43583>>, <<43598, 43599>>, <<43610, 43611>>,
     <<43715, 43738>>, <<43767, 43776>>, <<43783, 43784>>, <<43791, 43792>>, <<43799, 43807>>,
     <<43815, 43815>>, <<43823, 43823>>, <<43884, 43887>>, <<44014, 44015>>, <<44026, 44031>>,
     <<55204, 55215>>, <<55239, 55242>>, <<55292, 63743>>, <<64110, 64111>>, <<64218, 64255>>,
     <<64263, 64274>>, <<64280, 64284>>, <<64311, 64311>>, <<64317, 64317>>, <<64319, 64319>>,
     <<64322, 64322>>, <<64325, 64325>>, <<64451, 64466>>, <<64912, 64913>>, <<64968, 64974>>,
     <<64976, 65007>>, <<65050, 65055>>, <<65107, 65107>>, <<65127, 65127>>, <<65132, 65135>>,
     <<65141, 65141>>, <<65277, 65280>>, <<65471, 65473>>, <<65480, 65481>>, <<65488, 65489>>,
     <<65496, 65497>>, <<65501, 65503>>, <<65511, 65511>>, <<65519, 65531>>, <<65534, 65535>>,
     <<65548, 65548>>, <<65575, 65575>>, <<65595, 65595>>, <<65598, 65598>>, <<65614, 65615>>,
     <<65630, 65663>>, <<65787, 65791>>, <<65795, 65798>>, <<65844, 65846>>, <<65935, 65935>>,
     <<65949, 65951>>, <<65953, 65999>>, <<66046, 66175>>, <<66205, 66207>>, <<66257, 66271>>,
     <<66300, 66303>>, <<66340, 66348>>, <<66379, 66383>>, <<66427, 66431>>, <<66462, 66462>>,
     <<66500, 66503>>, <<66518, 66559>>, <<66718, 66719>>, <<66730, 66735>>, <<66772, 66775>>,
     <<66812, 66815>>, <<66856, 66863>>, <<66916, 66926>>, <<66939, 66939>>, <<66955, 66955>>,
     <<66963, 66963>>, <<66966, 66966>>, <<66978, 66978>>, <<66994, 66994>>, <<67002, 67002>>,
     <<67005, 67071>>, <<67383, 67391>>, <<67414, 67423>>, <<67432, 67455>>, <<67462, 67462>>,
     <<67505, 67505>>, <<67515, 67583>>, <<67590, 67591>>, <<67593, 67593>>, <<67638, 67638>>,
     <<67641, 67643>>, <<67645, 67646>>, <<67670, 67670>>, <<67743, 67750>>, <<67760, 67807>>,
     <<67827, 67827>>, <<67830, 67834>>, <<67868, 67870>>, <<67898, 67902>>, <<67904, 67967>>,
     <<68024, 68027>>, <<68048, 68049>>, <<68100, 68100>>, <<68103, 68107>>, <<68116, 68116>>,
     <<68120, 68120>>, <<68150, 68151>>, <<68155, 68158>>, <<68169, 68175>>, <<68185, 68191>>,
     <<68256, 68287>>, <<68327, 68330>>, <<68343, 68351>>, <<68406, 68408>>, <<68438, 68439>>,
     <<68467, 68471>>, <<68498, 68504>>, <<68509, 68520>>, <<68528, 68607>>, <<68681, 68735>>,
     <<68787, 68799>>, <<68851, 68857>>, <<68904, 68911>>, <<68922, 69215>>, <<69247, 69247>>,
     <<69290, 69290>>, <<69294, 69295>>, <<69298, 69375>>, <<69416, 69423>>, <<69466, 69487>>,
     <<69514, 69551>>, <<69580, 69599>>, <<69623, 69631>>, <<69710, 69713>>, <<69750, 69758>>,
     <<69821, 69821>>, <<69827, 69839>>, <<69865, 69871>>, <<69882, 69887>>, <<69941, 69941>>,
     <<69960, 69967>>, <<70007, 70015>>, <<70112, 70112>>, <<70133, 70143>>, <<70162, 70162>>,
     <<70207, 70271>>, <<70279, 70279>>, <<70281, 70281>>, <<70286, 70286>>, <<70302, 70302>>,
     <<70314, 70319>>, <<70379, 70383>>, <<70394, 70399>>, <<70404, 70404>>, <<70413, 70414>>,
     <<70417, 70418>>, <<70441, 70441>>, <<70449, 70449>>, <<70452, 70452>>, <<70458, 70458>>,
     <<70469, 70470>>, <<70473, 70474>>, <<70478, 70479>>, <<70481, 70486>>, <<70488, 70492>>,
     <<70500, 70501>>, <<70509, 70511>>, <<70517, 70655>>, <<70748, 70748>>, <<70754, 70783>>,
     <<70856, 70863>>, <<70874, 71039>>, <<71094, 71095>>, <<71134, 71167>>, <<71237, 71247>>,
     <<71258, 71263>>, <<71277, 71295>>, <<71354, 71359>>, <<71370, 71423>>, <<71451, 71452>>,
     <<71468, 71471>>, <<71495, 71679>>, <<71740, 71839>>, <<71923, 71934>>, <<71943, 71944>>,
     <<71946, 71947>>, <<71956, 71956>>, <<71959, 71959>>, <<71990, 71990>>, <<71993, 71994>>,
     <<72007, 72015>>, <<72026, 72095>>, <<72104, 72105>>, <<72152, 72153>>, <<72165, 72191>>,
     <<72264, 72271>>, <<72355, 72367>>, <<72441, 72703>>, <<72713, 72713>>, <<72759, 72759>>,
     <<72774, 72783>>, <<72813, 72815>>, <<72848, 72849>>, <<72872, 72872>>, <<72887, 72959>>,
     <<72967, 72967>>, <<72970, 72970>>, <<73015, 73017>>, <<73019, 73019>>, <<73022, 73022>>,
     <<73032, 73039>>, <<73050, 73055>>, <<73062, 73062>>, <<73065, 73065>>, <<73103, 73103>>,
     <<73106, 73106>>, <<73113, 73119>>, <<73130, 73439>>, <<73465, 73647>>, <<73649, 73663>>,
     <<73714, 73726>>, <<74650, 74751>>, <<74863, 74863>>, <<74869, 74879>>, <<75076, 77711>>,
     <<77811, 77823>>, <<78895, 82943>>, <<83527, 92159>>, <<92729, 92735>>, <<92767, 92767>>,
     <<92778, 92781>>, <<92863, 92863>>, <<92874, 92879>>, <<92910, 92911>>, <<92918, 92927>>,
     <<92998, 93007>>, <<93018, 93018>>, <<93026, 93026>>, <<93048, 93052>>, <<93072, 93759>>,
     <<93851, 93951>>, <<94027, 94030>>, <<94088, 94094>>, <<94112, 94175>>, <<94181, 94191>>,
     <<94194, 94207>>, <<100344, 100351>>, <<101590, 101631>>, <<101641, 110575>>,
     <<110580, 110580>>, <<110588, 110588>>, <<110591, 110591>>, <<110883, 110927>>,
     <<110931, 110947>>, <<110952, 110959>>, <<111356, 113663>>, <<113771, 113775>>,
     <<113789, 113791>>, <<113801, 113807>>, <<113818, 113819>>, <<113824, 118527>>,
     <<118574, 118575>>, <<118599, 118607>>, <<118724, 118783>>, <<119030, 119039>>,
     <<119079, 119080>>, <<119155, 119162>>, <<119275, 119295>>, <<119366, 119519>>,
     <<119540, 119551>>, <<119639, 119647>>, <<119673, 119807>>, <<119893, 119893>>,
     <<119965, 119965>>, <<119968, 119969>>, <<119971, 119972>>, <<119975, 119976>>,
     <<119981, 119981>>, <<119994, 119994>>, <<119996, 119996>>, <<120004, 120004>>,
     <<120070, 120070>>, <<120075, 120076>>, <<120085, 120085>>, <<120093, 120093>>,
     <<120122, 120122>>, <<120127, 120127>>, <<120133, 120133>>, <<120135, 120137>>,
     <<120145, 120145>>, <<120486, 120487>>, <<120780, 120781>>, <<121484, 121498>>,
     <<121504, 121504>>, <<121520, 122623>>, <<122655, 122879>>, <<122887, 122887>>,
     <<122905, 122906>>, <<122914, 122914>>, <<122917, 122917>>, <<122923, 123135>>,
     <<123181, 123183>>, <<123198, 123199>>, <<123210, 123213>>, <<123216, 123535>>,
     <<123567, 123583>>, <<123642, 123646>>, <<123648, 124895>>, <<124903, 124903>>,
     <<124908, 124908>>, <<124911, 124911>>, <<124927, 124927>>, <<125125, 125126>>,
     <<125143, 125183>>, <<125260, 125263>>, <<125274, 125277>>, <<125280, 126064>>,
     <<126133, 126208>>, <<126270, 126463>>, <<126468, 126468>>, <<126496, 126496>>,
     <<126499, 126499>>, <<126501, 126502>>, <<126504, 126504>>, <<126515, 126515>>,
     <<126520, 126520>>, <<126522, 126522>>, <<126524, 126529>>, <<126531, 126534>>,
     <<126536, 126536>>, <<126538, 126538>>, <<126540, 126540>>, <<126544, 126544>>,
     <<126547, 126547>>, <<126549, 126550>>, <<126552, 126552>>, <<126554, 126554>>,
     <<126556, 126556>>, <<126558, 126558>>, <<126560, 126560>>, <<126563, 126563>>,
     <<126565, 126566>>, <<126571, 126571>>, <<126579, 126579>>, <<126584, 126584>>,
     <<126589, 126589>>, <<126591, 126591>>, <<126602, 126602>>, <<126620, 126624>>,
     <<126628, 126628>>, <<126634, 126634>>, <<126652, 126703>>, <<126706, 126975>>,
     <<127020, 127023>>, <<127124, 127135>>, <<127151, 127152>>, <<127168, 127168>>,
     <<127184, 127184>>, <<127222, 127231>>, <<127406, 127461>>, <<127491, 127503>>,
     <<127548, 127551>>, <<127561, 127567>>, <<127570, 127583>>, <<127590, 127743>>,
     <<128728, 128732>>, <<128749, 128751>>, <<128765, 128767>>, <<128884, 128895>>,
     <<128985, 128991>>, <<129004, 129007>>, <<129009, 129023>>, <<129036, 129039>>,
     <<129096, 129103>>, <<129114, 129119>>, <<129160, 129167>>, <<129198, 129199>>,
     <<129202, 129279>>, <<129620, 129631>>, <<129646, 129647>>, <<129653, 129655>>,
     <<129661, 129663>>, <<129671, 129679>>, <<129709, 129711>>, <<129723, 129727>>,
     <<129734, 129743>>, <<129754, 129759>>, <<129768, 129775>>, <<129783, 129791>>,
     <<129939, 129939>>, <<129995, 130031>>, <<130042, 131071>>, <<173792, 173823>>,
     <<177977, 177983>>, <<178206, 178207>>, <<183970, 183983>>, <<191457, 194559>>,
     <<195102, 196607>>, <<201547, 917759>>, <<918000, 1114111>>
    >>
isprintable(c) ==
    \A i \in DOMAIN NonPrintable : c < NonPrintable[i][1] \/ c > NonPrintable[i][2]

\* n in hexadecimal, `width` digits, as repr writes it.
HexChars == U("0123456789abcdef")
RECURSIVE Hex(_, _)
Hex(n, width) == IF width = 0 THEN <<>>
                 ELSE Hex(n \div 16, width - 1) \o <<HexChars[(n % 16) + 1]>>

\* The whitespace int() drops around the literal: the six characters of C's
\* isspace, and of the characters past ASCII the spaces of Unicode; the
\* separators U+001C..U+001F are not dropped.
Spaces ==
    (9..13) \cup {32, 133, 160, 5760} \cup (8192..8202)
    \cup {8232, 8233, 8239, 8287, 12288}
IsSpace(c) == c \in Spaces
\* The text between the whitespace at both ends.
strip(s) ==
    LET solid == {i \in 1..Len(s) : ~IsSpace(s[i])}
    IN  IF solid = {} THEN <<>>
        ELSE SubSeq(s, CHOOSE i \in solid : \A j \in solid : i <= j,
                       CHOOSE i \in solid : \A j \in solid : i >= j)

\* s with every character c taken out.
Without(s, c) == SelectSeq(s, LAMBDA x : x # c)

\* repr(s): single quotes, or double quotes when s holds a single quote and no
\* double quote; the backslash and the enclosing quote are escaped, and every
\* character that is not printable is written \t, \n, \r, \xNN, \uNNNN or
\* \UNNNNNNNN.
ReprChar(c, quote) ==
    IF c = 92 THEN <<92, 92>>
    ELSE IF c = quote THEN <<92, quote>>
    ELSE IF c = 9 THEN U("\\t")
    ELSE IF c = 10 THEN U("\\n")
    ELSE IF c = 13 THEN U("\\r")
    ELSE IF isprintable(c) THEN <<c>>
    ELSE IF c < 256 THEN U("\\x") \o Hex(c, 2)
    ELSE IF c < 65536 THEN U("\\u") \o Hex(c, 4)
    ELSE U("\\U") \o Hex(c, 8)
RECURSIVE ReprBody(_, _)
ReprBody(s, quote) ==
    IF s = <<>> THEN s
    ELSE IF Len(s) = 1 THEN ReprChar(s[1], quote)
    ELSE ReprBody(SubSeq(s, 1, Len(s) \div 2), quote)
         \o ReprBody(SubSeq(s, (Len(s) \div 2) + 1, Len(s)), quote)
repr(s) ==
    LET quote == IF (\E i \in 1..Len(s) : s[i] = 39) /\ ~(\E i \in 1..Len(s) : s[i] = 34)
                 THEN 34 ELSE 39
    IN  <<quote>> \o ReprBody(s, quote) \o <<quote>>

\* The text after the sign of an int literal in base 10: digits, with single
\* underscores between them.
IsIntBody(body) ==
    /\ body # <<>>
    /\ IsDigit(body[1]) /\ IsDigit(body[Len(body)])
    /\ \A i \in 1..Len(body) : IsDigit(body[i]) \/ body[i] = 95
    /\ \A i \in 1..(Len(body) - 1) : ~(body[i] = 95 /\ body[i + 1] = 95)

\* re.search(lit + r'(\d{n})', s): the positions where the pattern matches
MatchesAt(lit, n, s) ==
    {i \in 1..Len(s) :
        /\ i + Len(lit) + n - 1 <= Len(s)
        /\ SubSeq(s, i, i + Len(lit) - 1) = lit
        /\ \A j \in (i + Len(lit))..(i + Len(lit) + n - 1) : IsDigit(s[j])}

\* Faulty variants of re_search: the pattern lit + r'(\d+)' cut to n characters,
\* and the rightmost match in place of the leftmost.
re_search_loose(lit, n, s) ==
    LET at == {i \in 1..Len(s) :
                  /\ i + Len(lit) <= Len(s)
                  /\ SubSeq(s, i, i + Len(lit) - 1) = lit
                  /\ IsDigit(s[i + Len(lit)])}
    IN  IF at = {} THEN None
        ELSE LET i == CHOOSE k \in at : \A m \in at : k <= m
             IN  Some(SubSeq(s, i + Len(lit), Min(i + Len(lit) + n - 1, Len(s))))
re_search_last(lit, n, s) ==
    LET at == MatchesAt(lit, n, s)
    IN  IF at = {} THEN None
        ELSE LET i == CHOOSE k \in at : \A m \in at : k >= m
             IN  Some(SubSeq(s, i + Len(lit), i + Len(lit) + n - 1))

\* re.search(...): None, or group(1) of the leftmost match
re_search(lit, n, s) ==
    LET at == MatchesAt(lit, n, s)
    IN  IF at = {} THEN None
        ELSE LET i == CHOOSE k \in at : \A m \in at : k <= m
             IN  Some(SubSeq(s, i + Len(lit), i + Len(lit) + n - 1))

\* datetime - timedelta(days=n) on the date part <<year, month, day>>
IsLeap(y) == (y % 4 = 0 /\ y % 100 # 0) \/ y % 400 = 0
DaysInMonth(y, m) ==
    IF m = 2 THEN (IF IsLeap(y) THEN 29 ELSE 28)
    ELSE IF m \in {4, 6, 9, 11} THEN 30 ELSE 31
RECURSIVE minus_days(_, _)
minus_days(date, n) ==
    LET y == date[1]
        m == date[2]
        d == date[3]
        py == IF m = 1 THEN y - 1 ELSE y
        pm == IF m = 1 THEN 12 ELSE m - 1
    IN  IF n < d THEN <<y, m, d - n>>
        ELSE minus_days(<<py, pm, DaysInMonth(py, pm)>>, n - d)

---------------------------------------------------------------------------
(* Text the code uses. *)

S3_BUCKET == U("lake")
S3_PREFIX == U("raw/")
YELLOW_TRIPDATA_ == U("yellow_tripdata_")
YELLOW_TRIPDATA == U("yellow_tripdata")
PARQUET == U(".parquet")
YEAR_EQ == U("year=")
MONTH_EQ == U("month=")
SLASH == U("/")
DASH == U("-")
URL_BASE == U("https://d37ci6vzurychx.cloudfront.net/trip-data/")
SUCCESS == U("Success")
FAILURE == U("Failure")
EXISTS_MSG == U("Data already exists for ")
OK_MSG == U("Successfully processed ")
UNEXP_MSG == U("Unexpected error: ")
CONN_MSG == U("Could not connect to the endpoint URL")

---------------------------------------------------------------------------
(* The log of external calls, and the collaborators' answers.              *)
(* Every entry has the fields call, resp and dur (the time the call took). *)

\* x = v; F(x): v is evaluated once.
Let(v, F(_)) == CHOOSE y \in {F(x) : x \in {v}} : TRUE

Count(log, c) == Cardinality({i \in DOMAIN log : log[i].call = c})
Emits(log) == Count(log, "put_metric_data")

\* time.time(), counted from the start of the invocation: time passes in
\* remote calls and in sleeps.
RECURSIVE Clock(_)
Clock(log) == IF log = <<>> THEN 0
              ELSE Clock(SubSeq(log, 1, Len(log) - 1)) + log[Len(log)].dur

\* The k-th answer of a collaborator, or `dflt` when the invocation asks for
\* more answers than it was given.
Answer(script, k, dflt) == IF k <= Len(script) THEN script[k] ELSE dflt

\* What a function hands back: the exception that left it (or "none"), the
\* value it returned, and the log.
Ret(value, log) == [exc |-> "none", msg |-> <<>>, value |-> value, log |-> log]
Raise(exc, msg, log) == [exc |-> exc, msg |-> msg, value |-> None, log |-> log]

\* s3_client.head_object(Bucket, Key): "200", a ClientError with code "404" or
\* "403", or a connection-level error, which botocore raises outside ClientError.
head_object(log, in, bucket, key) ==
    Let(Answer(in.probe, Count(log, "head_object") + 1, "404"), LAMBDA r :
        [exc  |-> IF r = "200" THEN "none"
                  ELSE IF r \in {"404", "403"} THEN "ClientError"
                  ELSE r,
         code |-> r,
         msg  |-> CONN_MSG,
         log  |-> Append(log, [call |-> "head_object", Bucket |-> bucket,
                               Key |-> key, resp |-> r, dur |-> 0])])

\* response.raise_for_status(): HTTPError for a status in 400..599, nothing
\* for any other status.  resp is the status in digits, or the name of the
\* error that requests.get raised in place of a response.
IsStatus(resp) ==
    resp # "" /\ \A i \in 1..Len(resp) : SubSeq(resp, i, i) \in DOMAIN OrdOf /\ IsDigit(OrdOf[SubSeq(resp, i, i)])
raise_for_status(resp) == DigitsValue(U(resp)) \in 400..599

\* requests.get(url, stream=True, timeout=30) followed by raise_for_status():
\* a response whose status is no error, a response with an error status
\* (HTTPError) or no response (ConnectionError); both errors are
\* RequestExceptions.  clen is the content-length header, 0 when the response
\* has none.
requests_get(log, in, url) ==
    Let(Answer(in.http, Count(log, "get") + 1,
               [resp |-> "ConnectionError", dur |-> 1, clen |-> 0]), LAMBDA r :
        [exc  |-> IF ~IsStatus(r.resp) THEN "RequestException"
                  ELSE IF raise_for_status(r.resp) THEN "RequestException"
                  ELSE "none",
         clen |-> r.clen,
         log  |-> Append(log, [call |-> "get", url |-> url, resp |-> r.resp,
                               clen |-> r.clen, dur |-> r.dur])])

\* A faulty variant of upload_fileobj: the object is stored under the key
\* followed by the time of the write.
upload_fileobj_stamped(log, in, bucket, key) ==
    Let(Answer(in.upload, Count(log, "upload_fileobj") + 1,
               [resp |-> "S3UploadFailedError", dur |-> 1]), LAMBDA r :
        [exc  |-> IF r.resp = "ok" THEN "none" ELSE r.resp,
         log  |-> Append(log, [call |-> "upload_fileobj", Bucket |-> bucket,
                               Key |-> key \o U(".") \o str(Clock(log)),
                               resp |-> r.resp, dur |-> r.dur])])

\* s3_client.upload_fileobj(response.raw, bucket, s3_key)
upload_fileobj(log, in, bucket, key) ==
    Let(Answer(in.upload, Count(log, "upload_fileobj") + 1,
               [resp |-> "S3UploadFailedError", dur |-> 1]), LAMBDA r :
        [exc  |-> IF r.resp = "ok" THEN "none" ELSE r.resp,
         log  |-> Append(log, [call |-> "upload_fileobj", Bucket |-> bucket,
                               Key |-> key, resp |-> r.resp, dur |-> r.dur])])

\* time.sleep(secs)
sleep(log, secs) ==
    Append(log, [call |-> "sleep", secs |-> secs, resp |-> "ok", dur |-> secs])

\* cloudwatch.put_metric_data(Namespace, MetricData): the backend accepts the
\* batch or raises.
put_metric_data(log, cw, namespace, metric_data) ==
    Let(Answer(cw, Emits(log) + 1, TRUE), LAMBDA ok :
        [exc  |-> IF ok THEN "none" ELSE "ClientError",
         log  |-> Append(log, [call |-> "put_metric_data", Namespace |-> namespace,
                               MetricData |-> metric_data,
                               resp |-> IF ok THEN "ok" ELSE "ClientError",
                               dur |-> 0])])

Dim(name, value) == [Name |-> name, Value |-> value]
\* One metric; Value is the fraction <<numerator, denominator>>.
Metric(name, dims, num, den, unit) ==
    [MetricName |-> name, Dimensions |-> dims, Value |-> <<num, den>>, Unit |-> unit]

---------------------------------------------------------------------------
(* ingestion.py *)

send_performance_metrics(log, cw, year, month, download_duration, upload_duration, file_size_bytes, success) ==
    LET ym == <<Dim("Year", year), Dim("Month", month)>>
        m1 == <<Metric("DownloadDuration",
                       Append(ym, Dim("Status", IF success THEN SUCCESS ELSE FAILURE)),
                       download_duration, 1, "Seconds")>>
        m2 == IF success /\ upload_duration > 0
              THEN <<Metric("UploadDuration", ym, upload_duration, 1, "Seconds")>>
              ELSE <<>>
        m3 == IF success /\ file_size_bytes > 0
              THEN <<Metric("FileSize", ym, file_size_bytes, 1, "Bytes"),
                     Metric("FileSizeMB", ym, file_size_bytes, 1024 * 1024, "Megabytes")>>
              ELSE <<>>
        m4 == IF success /\ download_duration > 0 /\ file_size_bytes > 0
              THEN <<Metric("DownloadThroughput", ym, file_size_bytes,
                            download_duration * (1024 * 1024), "Megabytes/Second")>>
              ELSE <<>>
    IN  Let(m1 \o m2 \o m3 \o m4, LAMBDA metric_data :
        Let(IF metric_data # <<>>
            THEN put_metric_data(log, cw, "NYCTaxiDownload", metric_data)
            ELSE Ret(None, log), LAMBDA sent :
            \* except Exception: logged, never re-raised
            Ret(None, sent.log)))

JobMetric(name, year, month) ==
    <<Metric(name, <<Dim("Year", year), Dim("Month", month)>>, 1, 1, "Count")>>

\* A faulty variant of put_success_metric: the backend's error is not caught.
put_success_metric_uncaught(log, cw, year, month) ==
    Let(put_metric_data(log, cw, "NYCTaxiDownload", JobMetric("JobSuccess", year, month)),
        LAMBDA sent :
            IF sent.exc # "none" THEN Raise(sent.exc, <<>>, sent.log)
            ELSE Ret(None, sent.log))

put_success_metric(log, cw, year, month) ==
    Let(put_metric_data(log, cw, "NYCTaxiDownload", JobMetric("JobSuccess", year, month)),
        LAMBDA sent :
            \* except Exception: logged, never re-raised
            Ret(None, sent.log))

put_failure_metric(log, cw, year, month) ==
    Let(put_metric_data(log, cw, "NYCTaxiDownload", JobMetric("JobFailure", year, month)),
        LAMBDA sent :
            \* except Exception: logged, never re-raised
            Ret(None, sent.log))

put_skipped_metric(log, cw, year, month) ==
    Let(put_metric_data(log, cw, "NYCTaxiDownload", JobMetric("JobSkipped", year, month)),
        LAMBDA sent :
            \* except Exception: logged, never re-raised
            Ret(None, sent.log))

\* A faulty variant of file_exists_in_s3: the key probed lacks the prefix.
file_exists_without_prefix(log, in, bucket, prefix, year, month) ==
    LET file_name == YELLOW_TRIPDATA_ \o year \o DASH \o month \o PARQUET
        s3_key == YEAR_EQ \o year \o SLASH \o MONTH_EQ \o month \o SLASH \o file_name
    IN  Let(head_object(log, in, bucket, s3_key), LAMBDA head :
            IF head.exc = "none" THEN Ret(TRUE, head.log)
            ELSE IF head.exc = "ClientError" THEN Ret(FALSE, head.log)
            ELSE Raise(head.exc, head.msg, head.log))

\* A faulty variant of file_exists_in_s3: the object is probed, but a found
\* object is reported as missing.
file_exists_found_as_missing(log, in, bucket, prefix, year, month) ==
    LET file_name == YELLOW_TRIPDATA_ \o year \o DASH \o month \o PARQUET
        s3_key == prefix \o YEAR_EQ \o year \o SLASH \o MONTH_EQ \o month \o SLASH \o file_name
    IN  Let(head_object(log, in, bucket, s3_key), LAMBDA head :
            IF head.exc \in {"none", "ClientError"} THEN Ret(FALSE, head.log)
            ELSE Raise(head.exc, head.msg, head.log))

file_exists_in_s3(log, in, bucket, prefix, year, month) ==
    LET file_name == YELLOW_TRIPDATA_ \o year \o DASH \o month \o PARQUET
        s3_key == prefix \o YEAR_EQ \o year \o SLASH \o MONTH_EQ \o month \o SLASH \o file_name
    IN  Let(head_object(log, in, bucket, s3_key), LAMBDA head :
            IF head.exc = "none" THEN Ret(TRUE, head.log)
            ELSE IF head.exc = "ClientError"
            THEN (IF head.code = "404" THEN Ret(FALSE, head.log)
                  ELSE Ret(FALSE, head.log))       \* other error (permissions, etc.)
            ELSE Raise(head.exc, head.msg, head.log))   \* no ClientError: not caught here

\* A faulty variant of backoff: the attempts counted from 1.
backoff_from_one(attempt) == 2 ^ (attempt + 1)

\* The delay before the next attempt: time.sleep(2 ** attempt).
backoff(attempt) == 2 ^ attempt

\* except requests.exceptions.RequestException: the exceptions it catches.
\* A faulty variant catches every exception.
catches_every_exception(exc) == exc # "none"
catches_RequestException(exc) == exc = "RequestException"

\* The try block of one attempt, after attempt_start was read.
attempt_body(log, in, cw, c, attempt_start) ==
    Let(requests_get(log, in, c.url), LAMBDA response :
        IF response.exc # "none" THEN Raise(response.exc, <<>>, response.log)
        ELSE
        Let(response.clen, LAMBDA file_size_bytes :   \* int(headers.get('content-length', 0))
        Let(Clock(response.log), LAMBDA upload_start :
        Let(upload_fileobj(response.log, in, c.bucket, c.s3_key), LAMBDA uploaded :
            IF uploaded.exc # "none" THEN Raise(uploaded.exc, <<>>, uploaded.log)
            ELSE
            Let(Clock(uploaded.log) - upload_start, LAMBDA upload_duration :
            Let(Clock(uploaded.log) - attempt_start, LAMBDA download_duration :
                IF download_duration = 0         \* the throughput log line divides by it
                THEN Raise("ZeroDivisionError", <<>>, uploaded.log)
                ELSE
                Let(send_performance_metrics(uploaded.log, cw, c.year, c.month,
                                             download_duration, upload_duration,
                                             file_size_bytes, TRUE), LAMBDA sent :
                    IF sent.exc # "none" THEN Raise(sent.exc, <<>>, sent.log)
                    ELSE Ret(TRUE, sent.log))))))))

\* One pass of `for attempt in range(3)` and the passes after it.
RECURSIVE process_month_attempt(_, _, _, _, _)
process_month_attempt(log, in, cw, c, attempt) ==
    IF attempt >= 3
    THEN Ret(FALSE, log)   \* the loop ran out: the function would return None (falsy)
    ELSE
    Let(Clock(log), LAMBDA attempt_start :
    Let(attempt_body(log, in, cw, c, attempt_start), LAMBDA tried :
        IF tried.exc = "none" THEN tried                                  \* return True
        ELSE IF catches_RequestException(tried.exc)
        THEN Let(Clock(tried.log) - attempt_start, LAMBDA attempt_duration :
             IF attempt = 2
             THEN Let(send_performance_metrics(tried.log, cw, c.year, c.month,
                                               attempt_duration, 0, 0, FALSE), LAMBDA sent :
                  IF sent.exc # "none" THEN Raise(sent.exc, <<>>, sent.log)
                  ELSE Raise(tried.exc, <<>>, sent.log))                    \* raise
             ELSE process_month_attempt(sleep(tried.log, backoff(attempt)),
                                        in, cw, c, attempt + 1))
        ELSE tried))                       \* another exception leaves the loop

process_month(log, in, cw, bucket, prefix, year, month) ==
    LET file_name == YELLOW_TRIPDATA_ \o year \o DASH \o month \o PARQUET
        url == URL_BASE \o file_name
        s3_key == prefix \o YEAR_EQ \o year \o SLASH \o MONTH_EQ \o month \o SLASH \o file_name
    IN  Let(Clock(log), LAMBDA start_time :
        Let(process_month_attempt(log, in, cw,
                [url |-> url, bucket |-> bucket, s3_key |-> s3_key,
                 year |-> year, month |-> month], 0), LAMBDA tried :
            IF tried.exc = "none" THEN tried
            ELSE                                              \* except Exception
            Let(Clock(tried.log) - start_time, LAMBDA error_duration :
            Let(send_performance_metrics(tried.log, cw, year, month,
                                         error_duration, 0, 0, FALSE), LAMBDA sent :
                IF sent.exc # "none" THEN Raise(sent.exc, <<>>, sent.log)
                ELSE Ret(FALSE, sent.log)))))

\* How a handler ends: it returns a value (None, or {[statusCode, body]}) or
\* an exception leaves it.
Returned(statusCode, body, log) ==
    [kind |-> "return", exc |-> "none",
     value |-> Some([statusCode |-> statusCode, body |-> body]), log |-> log]
ReturnedNone(log) == [kind |-> "return", exc |-> "none", value |-> None, log |-> log]
Raised(exc, log) == [kind |-> "raise", exc |-> exc, value |-> None, log |-> log]

\* The call put_failure_metric(...) with the positional arguments `args`: the
\* function takes (cloudwatch, year, month), and Python raises TypeError
\* before the body when the count differs.
call_put_failure_metric(log, cw, args) ==
    IF Len(args) # 3 THEN Raise("TypeError", <<>>, log)
    ELSE put_failure_metric(log, cw, args[2], args[3])

\* except Exception as e: put_failure_metric(cloudwatch); return {500, ...}
ingestion_except(log, cw, e) ==
    Let(call_put_failure_metric(log, cw, <<"cloudwatch">>), LAMBDA failed :
        IF failed.exc # "none" THEN Raised(failed.exc, failed.log)
        ELSE Returned(500, [text |-> UNEXP_MSG \o e.msg], failed.log))

ingestion_lambda_handler(in, cw) ==
    LET s3_bucket == S3_BUCKET        \* os.getenv('S3_BUCKET')
        s3_prefix == in.prefix        \* os.getenv('S3_PREFIX')
    IN  Let(minus_days(in.now, 30), LAMBDA target_date :
        Let(str(target_date[1]), LAMBDA year :
        Let(zfill(str(target_date[2]), 2), LAMBDA month :
        Let(file_exists_in_s3(<<>>, in, s3_bucket, s3_prefix, year, month), LAMBDA exists :
            IF exists.exc # "none" THEN ingestion_except(exists.log, cw, exists)
            ELSE IF exists.value
            THEN Let(put_skipped_metric(exists.log, cw, year, month), LAMBDA skipped :
                 IF skipped.exc # "none" THEN ingestion_except(skipped.log, cw, skipped)
                 ELSE Returned(200, [text |-> EXISTS_MSG \o year \o DASH \o month],
                               skipped.log))
            ELSE
            Let(process_month(exists.log, in, cw, s3_bucket, s3_prefix, year, month),
                LAMBDA processed :
                IF processed.exc # "none"
                THEN ingestion_except(processed.log, cw, processed)
                ELSE IF processed.value
                THEN Let(put_success_metric(processed.log, cw, year, month), LAMBDA recorded :
                     IF recorded.exc # "none"
                     THEN ingestion_except(recorded.log, cw, recorded)
                     ELSE Returned(200, [text |-> OK_MSG \o year \o DASH \o month],
                                   recorded.log))
                ELSE ReturnedNone(processed.log))))))    \* no return statement is reached

---------------------------------------------------------------------------
(* processing_trigger.py *)

INVALID_EVENT == U("Invalid event structure")
NOT_YELLOW == U("Not a yellow taxi parquet file - skipping")
NO_PERIOD == U("Could not extract year/month from S3 key")
TRIGGERED_MSG == U("Job triggered successfully")
FAILED_MSG == U("Failed to trigger processing job")
S3_SCHEME == U("s3://")
TOKEN_ERR == U("Failed to retrieve Databricks token: ")
API_ERR == U("Databricks API error: ")
SEP == U(" - ")
RUN_NOW == U("/api/2.1/jobs/run-now")
BEARER == U("Bearer ")
INT_ERR == U("invalid literal for int() with base 10: ")
DENIED_MSG == U("An error occurred (AccessDeniedException) when calling the GetSecretValue operation: Access denied")
TIMEOUT_MSG == U("HTTPSConnectionPool(host='dbx.example', port=443): Read timed out. (read timeout=30)")
\* The text of a refused connection names the connection object by its
\* address in memory, `at`.
REFUSED_MSG(at) ==
    U("HTTPSConnectionPool(host='dbx.example', port=443): Max retries exceeded with url: /api/2.1/jobs/run-now (Caused by NewConnectionError('<urllib3.connection.HTTPSConnection object at 0x")
    \o at \o U(">: Failed to establish a new connection: [Errno 111] Connection refused'))")
JSON_MSG == U("Expecting value: line 1 column 1 (char 0)")
JSON_MSG_KEY == U("Expecting property name enclosed in double quotes: line 1 column 2 (char 1)")
JSON_MSG_EXTRA == U("Extra data: line 1 column 18 (char 17)")

\* int(s) for a text s: surrounding whitespace is dropped, a sign may lead,
\* and single underscores may stand between the digits; any other text is a
\* ValueError, whose message quotes s as repr does, cut to 200 characters.
int(s, log) ==
    Let(strip(s), LAMBDA t :
    Let(IF t # <<>> /\ t[1] \in {43, 45} THEN SubSeq(t, 2, Len(t)) ELSE t,   \* + -
        LAMBDA body :
        IF IsIntBody(body)
        THEN Ret((IF t[1] = 45 THEN -1 ELSE 1) * DigitsValue(Without(body, 95)),   \* _
                 log)
        ELSE Raise("ValueError", INT_ERR \o Truncate(repr(s), 200), log)))   \* %.200R

\* os.environ[name]: KeyError when the variable is not set.
os_environ(in, name, log) ==
    IF in.environ[name] = None THEN Raise("KeyError", repr(U(name)), log)
    ELSE Ret(The(in.environ[name]), log)

\* secrets_client.get_secret_value(SecretId) and json.loads of its SecretString:
\* the parsed document, or None and in err the message of the JSONDecodeError
\* when the text is no JSON (the message names the place where the text stops
\* being JSON), or the service's error, whose message is in err.
get_secret_value(log, in, secret_arn) ==
    Let(Answer(in.secret, Count(log, "get_secret_value") + 1,
               [resp |-> "AccessDeniedException", doc |-> None, err |-> DENIED_MSG]),
        LAMBDA r :
    Let(Append(log, [call |-> "get_secret_value", SecretId |-> secret_arn,
                     resp |-> r.resp, dur |-> 0]), LAMBDA logged :
        IF r.resp # "ok" THEN Raise(r.resp, r.err, logged)
        ELSE IF r.doc = None THEN Raise("JSONDecodeError", r.err, logged)
        ELSE Ret(r.doc, logged)))

\* requests.post(api_url, headers, json, timeout=30): a response, or no
\* response and the library's exception, whose message is in err.  json is
\* what response.json() parses from the body: None, and in err the message of
\* the JSONDecodeError, when the body is no JSON.
requests_post(log, in, api_url, headers, payload) ==
    Let(Answer(in.post, Count(log, "post") + 1,
               [resp |-> "Timeout", status_code |-> 0, json |-> None, err |-> TIMEOUT_MSG,
                text |-> <<>>]),
        LAMBDA r :
    Let(Append(log, [call |-> "post", url |-> api_url, headers |-> headers,
                     json |-> payload, resp |-> r.resp, status_code |-> r.status_code,
                     dur |-> 0]), LAMBDA logged :
        IF r.resp = "response" THEN Ret(r, logged)
        ELSE Raise(r.resp, r.err, logged)))

send_cloudwatch_metric(log, cw, metric_name, value, dimensions) ==
    Let(put_metric_data(log, cw, "NYCTaxiProcessing",
                        <<Metric(metric_name, dimensions, value, 1, "Count")>>),
        LAMBDA sent :
            \* except Exception: logged, not raised
            Ret(None, sent.log))

\* A faulty variant of get_databricks_token: a failure yields an empty token.
get_databricks_token_lenient(log, in, secret_arn) ==
    Let(get_secret_value(log, in, secret_arn), LAMBDA got :
        IF got.exc # "none" \/ got.value = None THEN Ret(<<>>, got.log)
        ELSE IF The(got.value).token = None THEN Ret(<<>>, got.log)
        ELSE Ret(The(The(got.value).token), got.log))

get_databricks_token(log, in, secret_arn) ==
    Let(get_secret_value(log, in, secret_arn), LAMBDA got :
        IF got.exc # "none"          \* get_secret_value or json.loads raised
        THEN Raise("Exception", TOKEN_ERR \o got.msg, got.log)
        ELSE IF The(got.value).token = None      \* secret['token']: KeyError
        THEN Raise("Exception", TOKEN_ERR \o repr(U("token")), got.log)
        ELSE Ret(The(The(got.value).token), got.log))

trigger_databricks_job(log, in, bucket, key, year, month) ==
    Let(os_environ(in, "DATABRICKS_HOST", log), LAMBDA databricks_host :
    IF databricks_host.exc # "none" THEN databricks_host ELSE
    Let(os_environ(in, "DATABRICKS_JOB_ID", log), LAMBDA databricks_job_id :
    IF databricks_job_id.exc # "none" THEN databricks_job_id ELSE
    Let(os_environ(in, "DATABRICKS_SECRET_ARN", log), LAMBDA secret_arn :
    IF secret_arn.exc # "none" THEN secret_arn ELSE
    Let(get_databricks_token(log, in, secret_arn.value), LAMBDA databricks_token :
    IF databricks_token.exc # "none" THEN databricks_token ELSE
    Let(int(databricks_job_id.value, databricks_token.log), LAMBDA job_id :
    IF job_id.exc # "none" THEN job_id ELSE
    LET api_url == databricks_host.value \o RUN_NOW
        headers == [Authorization |-> BEARER \o databricks_token.value]
        payload == [job_id |-> job_id.value,
                    notebook_params |-> [source_year |-> year, source_month |-> month,
                                         source_bucket |-> bucket, source_key |-> key]]
    IN
    Let(requests_post(job_id.log, in, api_url, headers, payload), LAMBDA posted :
    IF posted.exc # "none" THEN posted ELSE
    Let(posted.value, LAMBDA response :
        IF response.status_code = 200
        THEN (IF response.json = None                     \* response.json() raises
              THEN Raise("JSONDecodeError", response.err, posted.log)
              ELSE Ret(The(response.json).run_id, posted.log))   \* result.get('run_id')
        ELSE Raise("Exception",
                   API_ERR \o str(response.status_code) \o SEP \o response.text,
                   posted.log))))))))

\* A faulty variant of trigger_except: the exception is raised again.
trigger_except_reraise(log, cw, e) == Raised(e.exc, log)

\* except Exception as e: the failure metric, then the 500 result
trigger_except(log, cw, e) ==
    Let(send_cloudwatch_metric(log, cw, "JobTriggerFailed", 1,
                               <<Dim("Error", Truncate(e.msg, 50))>>), LAMBDA sent :
        \* try: ... except: pass
        Returned(500, [error |-> e.msg, message |-> FAILED_MSG], sent.log))

Falsy(o) == o = None \/ o = Some(<<>>)

trigger_lambda_handler(in, cw) ==
    LET bucket == in.bucket         \* detail.get('bucket', {}).get('name')
        key == in.key               \* detail.get('object', {}).get('key')
    IN  IF Falsy(bucket) \/ Falsy(key)
        THEN Returned(400, [text |-> INVALID_EVENT], <<>>)
        ELSE IF ~Contains(The(key), YELLOW_TRIPDATA) \/ ~EndsWith(The(key), PARQUET)
        THEN Returned(200, [text |-> NOT_YELLOW], <<>>)
        ELSE
        Let(re_search(YEAR_EQ, 4, The(key)), LAMBDA year_match :
        Let(re_search(MONTH_EQ, 2, The(key)), LAMBDA month_match :
            IF year_match = None \/ month_match = None
            THEN Returned(400, [text |-> NO_PERIOD], <<>>)
            ELSE
            Let(The(year_match), LAMBDA year :
            Let(The(month_match), LAMBDA month :
            Let(trigger_databricks_job(<<>>, in, The(bucket), The(key), year, month),
                LAMBDA job_run_id :
                IF job_run_id.exc # "none"
                THEN trigger_except(job_run_id.log, cw, job_run_id)
                ELSE
                Let(send_cloudwatch_metric(job_run_id.log, cw, "JobTriggered", 1,
                        <<Dim("Year", year), Dim("Month", month),
                          Dim("Status", SUCCESS)>>), LAMBDA sent :
                    IF sent.exc # "none" THEN trigger_except(sent.log, cw, sent)
                    ELSE Returned(200,
                             [message |-> TRIGGERED_MSG, run_id |-> job_run_id.value,
                              year |-> year, month |-> month,
                              s3_file |-> S3_SCHEME \o The(bucket) \o SLASH \o The(key)],
                             sent.log)))))))

---------------------------------------------------------------------------
(* The inputs: invocation times, collaborators' answers, notifications. *)

K_GOOD == U("raw/year=2024/month=01/yellow_tripdata_2024-01.parquet")
K_NOYEAR == U("raw/month=01/yellow_tripdata_2024-01.parquet")
K_NOMONTH == U("raw/year=2024/yellow_tripdata_2024-01.parquet")
K_YEAR3 == U("year=202/month=01/yellow_tripdata.parquet")
K_MONTH1 == U("year=2024/month=1/yellow_tripdata.parquet")
K_GREEN == U("year=2024/month=01/green_tripdata.parquet")
K_CSV == U("year=2024/month=01/yellow_tripdata.csv")
K_NOTES == U("notes.txt")
K_LONG == U("year=20245/month=123/yellow_tripdata.parquet")
K_TWICE == U("year=1999/year=2024/month=07/yellow_tripdata.parquet")
K_MID == U("yellow_tripdata.parquet/year=2024/month=01/_SUCCESS")
HOST == U("https://dbx.example")
JOB == U("123")
BADJOB == U("nightly")
PADJOB == U(" 42")
ARN == U("arn:secret")
TOKEN == U("dapi-token")
TXT_ERR == U("Internal Error")
TXT_HTML == U("<html>")
TXT_JSON == U("{...}")
TXT_OPEN == U("{")
\* Keys and a job id written in decimal digits past ASCII: the fullwidth
\* digits U+FF10.. and the Arabic-Indic digits U+0660..
WIDE_2024 == <<65298, 65296, 65298, 65300>>
WIDE_01 == <<65296, 65297>>
K_WIDE == U("year=") \o WIDE_2024 \o U("/month=") \o WIDE_01 \o U("/yellow_tripdata.parquet")
K_WIDE_FIRST == U("year=") \o WIDE_2024 \o U("/year=2024/month=01/yellow_tripdata.parquet")
WIDEJOB == <<1636, 1634>>
\* Addresses in memory of a connection object.
Addresses == {U("7f3a5c1d2e90"), U("7f3a5c1d4b50")}

\* datetime.now(), its date part
Nows == {<<2024, 1, 15>>, <<2024, 3, 1>>}

ProbeAnswers == {"200", "404", "403", "EndpointConnectionError"}
Clens == {0, 3 * 1024 * 1024}      \* content-length: absent (0) or 3 MB
HttpAnswers ==
    {[resp |-> "200", dur |-> d, clen |-> c] : d \in Durs, c \in Clens}
    \cup {[resp |-> "204", dur |-> 1, clen |-> 0]}
    \cup {[resp |-> r, dur |-> d, clen |-> 0] : r \in {"503", "ConnectionError"}, d \in Durs}
UploadAnswers == {[resp |-> r, dur |-> d] : r \in {"ok", "S3UploadFailedError"}, d \in Durs}

TestKeys == {K_GOOD, K_NOYEAR, K_NOMONTH, K_YEAR3, K_MONTH1, K_GREEN, K_CSV,
             K_NOTES, K_LONG, K_TWICE, K_MID, K_WIDE, K_WIDE_FIRST}
EventBuckets == {None, Some(<<>>), Some(S3_BUCKET)}
EventKeys(store) == {None, Some(<<>>)} \cup {Some(k) : k \in TestKeys \cup store}
Environs ==
    {[DATABRICKS_HOST |-> Some(HOST), DATABRICKS_JOB_ID |-> Some(JOB),
      DATABRICKS_SECRET_ARN |-> Some(ARN)],
     [DATABRICKS_HOST |-> None, DATABRICKS_JOB_ID |-> Some(JOB),
      DATABRICKS_SECRET_ARN |-> Some(ARN)],
     [DATABRICKS_HOST |-> Some(HOST), DATABRICKS_JOB_ID |-> Some(BADJOB),
      DATABRICKS_SECRET_ARN |-> Some(ARN)],
     [DATABRICKS_HOST |-> Some(HOST), DATABRICKS_JOB_ID |-> Some(PADJOB),
      DATABRICKS_SECRET_ARN |-> Some(ARN)],
     [DATABRICKS_HOST |-> Some(HOST), DATABRICKS_JOB_ID |-> Some(WIDEJOB),
      DATABRICKS_SECRET_ARN |-> Some(ARN)]}
\* The messages of json.loads for texts that are no JSON: '', '{' and
\* '{"token": "abc"} x'.
JsonErrors == {JSON_MSG, JSON_MSG_KEY, JSON_MSG_EXTRA}
SecretAnswers ==
    {[resp |-> "ok", doc |-> Some([token |-> Some(TOKEN)]), err |-> <<>>],
     [resp |-> "ok", doc |-> Some([token |-> None]), err |-> <<>>],
     [resp |-> "AccessDeniedException", doc |-> None, err |-> DENIED_MSG]}
    \cup {[resp |-> "ok", doc |-> None, err |-> e] : e \in JsonErrors}
RunIds == {7, 42}
PostAnswers ==
    {[resp |-> "response", status_code |-> 200, json |-> Some([run_id |-> Some(r)]), err |-> <<>>, text |-> TXT_JSON] : r \in RunIds}
    \cup {[resp |-> "response", status_code |-> 200, json |-> Some([run_id |-> None]), err |-> <<>>, text |-> TXT_JSON],
          [resp |-> "response", status_code |-> 200, json |-> None, err |-> JSON_MSG, text |-> TXT_HTML],
          [resp |-> "response", status_code |-> 200, json |-> None, err |-> JSON_MSG_KEY, text |-> TXT_OPEN],
          [resp |-> "response", status_code |-> 201, json |-> Some([run_id |-> Some(42)]), err |-> <<>>, text |-> TXT_JSON],
          [resp |-> "response", status_code |-> 302, json |-> None, err |-> <<>>, text |-> TXT_HTML],
          [resp |-> "response", status_code |-> 403, json |-> None, err |-> <<>>, text |-> TXT_ERR],
          [resp |-> "response", status_code |-> 500, json |-> None, err |-> <<>>, text |-> TXT_ERR],
          [resp |-> "Timeout", status_code |-> 0, json |-> None, err |-> TIMEOUT_MSG, text |-> <<>>]}
    \cup {[resp |-> "ConnectionError", status_code |-> 0, json |-> None, err |-> REFUSED_MSG(at), text |-> <<>>] : at \in Addresses}

\* The answers of every collaborator.
Answers ==
    [http |-> HttpAnswers, upload |-> UploadAnswers, cw |-> BOOLEAN,
     secret |-> SecretAnswers, post |-> PostAnswers]

\* The ways the collaborator addressed by an external call `call` of the
\* Fetcher can answer it, as the inputs with the answer added; time.sleep
\* takes no answer.
FetcherAnswered(in, cw, call, answers) ==
    IF call = "get"
    THEN {[in |-> [in EXCEPT !.http = Append(@, a)], cw |-> cw] : a \in answers.http}
    ELSE IF call = "upload_fileobj"
    THEN {[in |-> [in EXCEPT !.upload = Append(@, a)], cw |-> cw] : a \in answers.upload}
    ELSE IF call = "put_metric_data"
    THEN {[in |-> in, cw |-> Append(cw, a)] : a \in answers.cw}
    ELSE {[in |-> in, cw |-> cw]}

\* The next external call of a Fetcher invocation that has made the calls of
\* `log`: every way it can be answered, with the run of the handler, res, that
\* the answers so far determine.  Empty when the handler makes no further call.
FetcherSteps(in, cw, log, answers) ==
    Let(ingestion_lambda_handler(in, cw).log, LAMBDA ahead :
        IF Len(ahead) <= Len(log) THEN {}
        ELSE {[in |-> x.in, cw |-> x.cw, res |-> ingestion_lambda_handler(x.in, x.cw)] :
                  x \in FetcherAnswered(in, cw, ahead[Len(log) + 1].call, answers)})

\* The same for the Trigger.
TriggerAnswered(in, cw, call, answers) ==
    IF call = "get_secret_value"
    THEN {[in |-> [in EXCEPT !.secret = Append(@, a)], cw |-> cw] : a \in answers.secret}
    ELSE IF call = "post"
    THEN {[in |-> [in EXCEPT !.post = Append(@, a)], cw |-> cw] : a \in answers.post}
    ELSE {[in |-> in, cw |-> Append(cw, a)] : a \in answers.cw}

TriggerSteps(in, cw, log, answers) ==
    Let(trigger_lambda_handler(in, cw).log, LAMBDA ahead :
        IF Len(ahead) <= Len(log) THEN {}
        ELSE {[in |-> x.in, cw |-> x.cw, res |-> trigger_lambda_handler(x.in, x.cw)] :
                  x \in TriggerAnswered(in, cw, ahead[Len(log) + 1].call, answers)})

---------------------------------------------------------------------------
(* The state machine. *)

\* No invocation in a slot; prefix is the function's S3_PREFIX setting, which
\* every invocation reads.
NoFetch == [prefix |-> S3_PREFIX, now |-> <<>>, probe |-> <<>>, http |-> <<>>, upload |-> <<>>]
Idle(in) == [NoFetch EXCEPT !.prefix = in.prefix]
NoEvent == [bucket |-> None, key |-> None, environ |-> [x \in {} |-> None],
            secret |-> <<>>, post |-> <<>>]
NoResult == [kind |-> "none", exc |-> "none", value |-> None]
Outcome(r) == [kind |-> r.kind, exc |-> r.exc, value |-> r.value]

\* Invocations in progress.
Running == Cardinality({p \in Procs : fpc[p] # "idle"}) + (IF tpc # "idle" THEN 1 ELSE 0)

\* The keys that successful upload_fileobj calls of `log` wrote.
Written(log) ==
    {log[i].Key : i \in {j \in DOMAIN log : log[j].call = "upload_fileobj" /\ log[j].resp = "ok"}}

Init ==
    /\ s3 = {}
    /\ concurrency = 1
    /\ fpc = [p \in Procs |-> "idle"]
    /\ fin = [p \in Procs |-> NoFetch]
    /\ fcw = [p \in Procs |-> <<>>]
    /\ flog = [p \in Procs |-> <<>>]
    /\ fres = [p \in Procs |-> NoResult]
    /\ tpc = "idle"
    /\ tin = NoEvent
    /\ tcw = <<>>
    /\ tlog = <<>>
    /\ tres = NoResult

\* The timer invokes the Fetcher: datetime.now() is read.
FetcherInvoke(p) ==
    /\ fpc[p] = "idle"
    /\ Running < concurrency
    /\ \E now \in Nows : fin' = [fin EXCEPT ![p] = [Idle(@) EXCEPT !.now = now]]
    /\ fpc' = [fpc EXCEPT ![p] = "invoked"]
    /\ UNCHANGED <<s3, concurrency, fcw, flog, fres, tvars>>

\* The handler runs up to its head_object call; the storage answers "200"
\* only for a key it holds and "404" only for a key it does not hold.
FetcherCheck(p) ==
    /\ fpc[p] = "invoked"
    /\ \E a \in ProbeAnswers :
          \E head \in {ingestion_lambda_handler([fin[p] EXCEPT !.probe = <<a>>], <<>>).log[1]} :
              /\ head.call = "head_object"
              /\ a = "200" => head.Key \in s3
              /\ a = "404" => head.Key \notin s3
              /\ fin' = [fin EXCEPT ![p] = [@ EXCEPT !.probe = <<a>>]]
              /\ flog' = [flog EXCEPT ![p] = <<head>>]
    /\ fpc' = [fpc EXCEPT ![p] = "checked"]
    /\ UNCHANGED <<s3, concurrency, fcw, fres, tvars>>

\* The handler makes its next external call (a download, a delay, an upload,
\* a metric batch), answered from `answers`; a successful upload stores the
\* object.  After the call the handler goes on to a further one, or it ends;
\* a handler that makes no further call ends as it is.
FetcherStepOver(p, answers) ==
    /\ fpc[p] = "checked"
    /\ \E x \in Let(FetcherSteps(fin[p], fcw[p], flog[p], answers), LAMBDA steps :
                     IF steps = {}
                     THEN {[in |-> fin[p], cw |-> fcw[p],
                            res |-> ingestion_lambda_handler(fin[p], fcw[p])]}
                     ELSE steps) :
          \E n \in {Len(flog[p]) + 1} :
              /\ fin' = [fin EXCEPT ![p] = x.in]
              /\ fcw' = [fcw EXCEPT ![p] = x.cw]
              /\ IF Len(x.res.log) > n
                 THEN /\ flog' = [flog EXCEPT ![p] = SubSeq(x.res.log, 1, n)]
                      /\ s3' = s3 \cup Written(<<x.res.log[n]>>)
                      /\ UNCHANGED <<fpc, fres>>
                 ELSE /\ flog' = [flog EXCEPT ![p] = x.res.log]
                      /\ s3' = s3 \cup Written(x.res.log)
                      /\ fres' = [fres EXCEPT ![p] = Outcome(x.res)]
                      /\ fpc' = [fpc EXCEPT ![p] = "done"]
    /\ UNCHANGED <<concurrency, tvars>>

FetcherStep(p) == FetcherStepOver(p, Answers)

\* The platform takes the outcome; nothing of the invocation persists.
FetcherReturn(p) ==
    /\ fpc[p] = "done"
    /\ fpc' = [fpc EXCEPT ![p] = "idle"]
    /\ fin' = [fin EXCEPT ![p] = Idle(@)]
    /\ fcw' = [fcw EXCEPT ![p] = <<>>]
    /\ flog' = [flog EXCEPT ![p] = <<>>]
    /\ fres' = [fres EXCEPT ![p] = NoResult]
    /\ UNCHANGED <<s3, concurrency, tvars>>

\* A notification invokes the Trigger.
TriggerInvoke ==
    /\ tpc = "idle"
    /\ Running < concurrency
    /\ \E bucket \in EventBuckets, key \in EventKeys(s3), env \in Environs :
          tin' = [NoEvent EXCEPT !.bucket = bucket, !.key = key, !.environ = env]
    /\ tpc' = "invoked"
    /\ UNCHANGED <<s3, concurrency, fvars, tcw, tlog, tres>>

\* The Trigger makes its next external call (the credential fetch, the POST, a
\* metric), answered from `answers`, and goes on to a further one, or it ends;
\* a handler that makes no call ends as it is.
TriggerStepOver(answers) ==
    /\ tpc = "invoked"
    /\ \E x \in Let(TriggerSteps(tin, tcw, tlog, answers), LAMBDA steps :
                     IF steps = {}
                     THEN {[in |-> tin, cw |-> tcw, res |-> trigger_lambda_handler(tin, tcw)]}
                     ELSE steps) :
          \E n \in {Len(tlog) + 1} :
              /\ tin' = x.in
              /\ tcw' = x.cw
              /\ IF Len(x.res.log) > n
                 THEN /\ tlog' = SubSeq(x.res.log, 1, n)
                      /\ UNCHANGED <<tpc, tres>>
                 ELSE /\ tlog' = x.res.log
                      /\ tres' = Outcome(x.res)
                      /\ tpc' = "done"
    /\ UNCHANGED <<s3, concurrency, fvars>>

TriggerStep == TriggerStepOver(Answers)

\* The platform takes the outcome.
TriggerReturn ==
    /\ tpc = "done"
    /\ tpc' = "idle"
    /\ tin' = NoEvent
    /\ tcw' = <<>>
    /\ tlog' = <<>>
    /\ tres' = NoResult
    /\ UNCHANGED <<s3, concurrency, fvars>>

Next ==
    \/ \E p \in Procs : FetcherInvoke(p)
    \/ \E p \in Procs : FetcherCheck(p)
    \/ \E p \in Procs : FetcherStep(p)
    \/ \E p \in Procs : FetcherReturn(p)
    \/ TriggerInvoke
    \/ TriggerStep
    \/ TriggerReturn

Spec == Init /\ [][Next]_vars

---------------------------------------------------------------------------
(* Concurrent invocations: the platform runs two invocations at a time, the  *)
(* function is deployed with one of several prefixes, the storage answers    *)
(* the probe truthfully, and the Trigger is invoked by the notifications of  *)
(* stored objects.                                                           *)

\* S3_PREFIX settings of a deployment.
Prefixes == {<<>>, S3_PREFIX, U("archive/year=1999/"), U("year=") \o WIDE_2024 \o U("/")}
\* datetime.now(), its date part
WideNows == {<<2024, 2, 15>>, <<2024, 3, 1>>, <<2024, 12, 31>>}
\* The collaborators' answers: a download or an upload works or fails, the
\* metrics backend accepts.
PlainAnswers ==
    [http   |-> {[resp |-> "200", dur |-> 1, clen |-> 3 * 1024 * 1024],
                 [resp |-> "ConnectionError", dur |-> 1, clen |-> 0]},
     upload |-> {[resp |-> "ok", dur |-> 1], [resp |-> "S3UploadFailedError", dur |-> 1]},
     cw     |-> {TRUE},
     secret |-> {[resp |-> "ok", doc |-> Some([token |-> Some(TOKEN)]), err |-> <<>>]},
     post   |-> {[resp |-> "response", status_code |-> 200,
                  json |-> Some([run_id |-> Some(42)]), err |-> <<>>, text |-> TXT_JSON],
                 [resp |-> "response", status_code |-> 500, json |-> None, err |-> <<>>,
                  text |-> TXT_ERR]}]
\* The environment with every variable set.
PlainEnviron ==
    [DATABRICKS_HOST |-> Some(HOST), DATABRICKS_JOB_ID |-> Some(JOB),
     DATABRICKS_SECRET_ARN |-> Some(ARN)]

InitConcurrent ==
    /\ s3 = {}
    /\ concurrency = 2
    /\ fpc = [p \in Procs |-> "idle"]
    /\ \E prefix \in Prefixes : fin = [p \in Procs |-> [NoFetch EXCEPT !.prefix = prefix]]
    /\ fcw = [p \in Procs |-> <<>>]
    /\ flog = [p \in Procs |-> <<>>]
    /\ fres = [p \in Procs |-> NoResult]
    /\ tpc = "idle"
    /\ tin = NoEvent
    /\ tcw = <<>>
    /\ tlog = <<>>
    /\ tres = NoResult

\* The timer invokes the Fetcher: datetime.now() is read.
ConcurrentInvoke(p) ==
    /\ fpc[p] = "idle"
    /\ Running < concurrency
    /\ \E now \in WideNows : fin' = [fin EXCEPT ![p] = [Idle(@) EXCEPT !.now = now]]
    /\ fpc' = [fpc EXCEPT ![p] = "invoked"]
    /\ UNCHANGED <<s3, concurrency, fcw, flog, fres, tvars>>

\* The handler runs up to its head_object call; the storage answers "200" for
\* a key it holds and "404" for a key it does not hold.
ConcurrentCheck(p) ==
    /\ fpc[p] = "invoked"
    /\ \E a \in {"200", "404"} :
          \E head \in {ingestion_lambda_handler([fin[p] EXCEPT !.probe = <<a>>], <<>>).log[1]} :
              /\ head.call = "head_object"
              /\ a = "200" <=> head.Key \in s3
              /\ fin' = [fin EXCEPT ![p] = [@ EXCEPT !.probe = <<a>>]]
              /\ flog' = [flog EXCEPT ![p] = <<head>>]
    /\ fpc' = [fpc EXCEPT ![p] = "checked"]
    /\ UNCHANGED <<s3, concurrency, fcw, fres, tvars>>

\* The handler's calls, one at a time: between two calls of one invocation
\* the other one may run.
ConcurrentStep(p) == FetcherStepOver(p, PlainAnswers)

\* The notification of a stored object invokes the Trigger.
StoredObjectNotifies ==
    /\ tpc = "idle"
    /\ Running < concurrency
    /\ \E key \in s3 :
          tin' = [NoEvent EXCEPT !.bucket = Some(S3_BUCKET), !.key = Some(key),
                                 !.environ = PlainEnviron]
    /\ tpc' = "invoked"
    /\ UNCHANGED <<s3, concurrency, fvars, tcw, tlog, tres>>

\* The Trigger's calls, one at a time.
NotifiedStep == TriggerStepOver(PlainAnswers)

NextConcurrent ==
    \/ \E p \in Procs : ConcurrentInvoke(p)
    \/ \E p \in Procs : ConcurrentCheck(p)
    \/ \E p \in Procs : ConcurrentStep(p)
    \/ \E p \in Procs : FetcherReturn(p)
    \/ StoredObjectNotifies
    \/ NotifiedStep
    \/ TriggerReturn

SpecConcurrent == InitConcurrent /\ [][NextConcurrent]_vars

---------------------------------------------------------------------------
(* Properties of the Fetcher (ingestion.lambda_handler).                   *)

\* The metric batches of a log, in order.
Batches(log) == SelectSeq(log, LAMBDA e : e.call = "put_metric_data")
\* How many batches of `log` carry the one job metric `name`.
Signals(log, name) ==
    Cardinality({i \in DOMAIN Batches(log) :
                    Batches(log)[i].MetricData[1].MetricName = name})
\* The performance batches of `log` (they start with DownloadDuration) whose
\* Status dimension is `status`.
PerfBatches(log, status) ==
    SelectSeq(Batches(log), LAMBDA e :
        /\ e.MetricData[1].MetricName = "DownloadDuration"
        /\ e.MetricData[1].Dimensions[3] = Dim("Status", status))
\* The delays of a log, each placed among the downloads: 0 stands for a get.
Delays(log) ==
    Let(SelectSeq(log, LAMBDA e : e.call \in {"get", "sleep"}), LAMBDA gs :
        [i \in DOMAIN gs |-> IF gs[i].call = "sleep" THEN gs[i].secs ELSE 0])
\* The handler returned a result with this status code.
ReturnedStatus(res, code) ==
    res.kind = "return" /\ res.value # None /\ The(res.value).statusCode = code
\* An invocation in slot p has run to its end.
FDone(p) == fpc[p] = "done"
\* The existence probe of slot p's invocation answered true / false.
ProbeTrue(p) == FDone(p) /\ fin[p].probe = <<"200">>
ProbeFalse(p) == FDone(p) /\ Len(fin[p].probe) = 1 /\ fin[p].probe[1] \in {"404", "403"}

\* C1: when the existence probe answers true, the invocation attempts no
\* download and no storage write, emits exactly one metric batch, which is
\* JobSkipped (so no JobSuccess, no JobFailure, no performance batch), and
\* returns status 200.
C1_ExistingFileIsSkipped ==
    \A p \in Procs : ProbeTrue(p) =>
        /\ Count(flog[p], "get") = 0
        /\ Count(flog[p], "upload_fileobj") = 0
        /\ Signals(flog[p], "JobSkipped") = 1
        /\ Emits(flog[p]) = 1
        /\ ReturnedStatus(fres[p], 200)
C1_Witness ==
    \E p \in Procs : ProbeTrue(p) /\ Signals(flog[p], "JobSkipped") = 1

\* A download that failed in transport: an error status, or no response.
FetchError(a) == a.resp \in {"503", "ConnectionError"}
\* The download failed on attempts 1 and 2 and succeeded on attempt 3, and the
\* storage write succeeded.
FailFailOk(p) ==
    /\ ProbeFalse(p)
    /\ Len(fin[p].http) = 3
    /\ FetchError(fin[p].http[1]) /\ FetchError(fin[p].http[2])
    /\ ~FetchError(fin[p].http[3])
    /\ Len(fin[p].upload) = 1 /\ fin[p].upload[1].resp = "ok"

\* C2: with the file absent, attempts 1 and 2 failing in transport and attempt
\* 3 succeeding, the invocation returns status 200 and emits JobSuccess, emits
\* exactly one performance batch, tagged Success, and none tagged Failure, and
\* waits 1 time unit before attempt 2 and 2 time units before attempt 3.
C2_ThirdAttemptSucceeds ==
    \A p \in Procs : FailFailOk(p) =>
        /\ ReturnedStatus(fres[p], 200)
        /\ Signals(flog[p], "JobSuccess") = 1
        /\ Len(PerfBatches(flog[p], SUCCESS)) = 1
        /\ Len(PerfBatches(flog[p], FAILURE)) = 0
        /\ Signals(flog[p], "DownloadDuration") = 1
        /\ Delays(flog[p]) = <<0, 1, 0, 2, 0>>
C2_Witness ==
    \E p \in Procs : FailFailOk(p) /\ Count(flog[p], "sleep") = 2
                     /\ Count(flog[p], "upload_fileobj") = 1

\* All three download attempts failed in transport.
AllAttemptsFail(p) ==
    /\ ProbeFalse(p)
    /\ Len(fin[p].http) = 3
    /\ \A i \in 1..3 : FetchError(fin[p].http[i])

\* C3: with the file absent and all 3 attempts failing in transport, exactly
\* one performance batch tagged Failure is emitted in the invocation, and its
\* DownloadDuration is the duration of the third attempt.
C3_OneFailureBatch ==
    \A p \in Procs : AllAttemptsFail(p) =>
        /\ Len(PerfBatches(flog[p], FAILURE)) = 1
        /\ PerfBatches(flog[p], FAILURE)[1].MetricData[1].Value
               = <<fin[p].http[3].dur, 1>>

\* process_month ended in failure: the file was absent and no upload succeeded.
FetchFailed(p) == ProbeFalse(p) /\ Written(flog[p]) = {}

\* C4: an invocation whose fetch-and-store fails emits JobFailure and returns
\* status 500; and every invocation ends by returning a result with status
\* code 200 or 500, never an absent one.
C4_FailureIsReported ==
    \A p \in Procs :
        /\ FetchFailed(p) => Signals(flog[p], "JobFailure") = 1
                             /\ ReturnedStatus(fres[p], 500)
        /\ FDone(p) => ReturnedStatus(fres[p], 200) \/ ReturnedStatus(fres[p], 500)

\* An exception was raised inside the orchestration: the existence check met a
\* connection error.
ProbeRaises(p) == FDone(p) /\ fin[p].probe = <<"EndpointConnectionError">>

\* C5: no exception leaves the handler; one raised inside the orchestration
\* becomes a JobFailure signal and a status 500 result.
C5_NothingPropagates ==
    \A p \in Procs :
        /\ FDone(p) => fres[p].kind # "raise"
        /\ ProbeRaises(p) => Signals(flog[p], "JobFailure") = 1
                             /\ ReturnedStatus(fres[p], 500)

---------------------------------------------------------------------------
(* Metric emission in both handlers. *)

\* The calls of a log other than metric emissions.
NonMetric(log) == SelectSeq(log, LAMBDA e : e.call # "put_metric_data")
\* The metrics backend that gives every emission the same answer.
Always(answer, n) == [i \in 1..n |-> answer]
TDone == tpc = "done"
\* Some emission of the log was rejected by the backend.
SomeRejected(log) ==
    \E i \in DOMAIN log : log[i].call = "put_metric_data" /\ log[i].resp = "ClientError"

\* C6: a failed metric emission is swallowed.  Whatever the metrics backend
\* answered in a finished invocation of either handler, the same inputs and
\* the same answers of the other collaborators with a backend that accepts
\* everything, or rejects everything, give the same outcome (the same status
\* code and body, or the same exception) and the same non-metric calls; so
\* no metric failure changes the result or makes a handler raise.
C6_MetricFailureIsSwallowed ==
    /\ \A p \in Procs : FDone(p) =>
           \A answer \in BOOLEAN :
               \E r \in {ingestion_lambda_handler(fin[p], Always(answer, Len(flog[p])))} :
                   /\ Outcome(r) = fres[p]
                   /\ NonMetric(r.log) = NonMetric(flog[p])
    /\ TDone =>
           \A answer \in BOOLEAN :
               \E r \in {trigger_lambda_handler(tin, Always(answer, Len(tlog)))} :
                   /\ Outcome(r) = tres
                   /\ NonMetric(r.log) = NonMetric(tlog)
C6_Witness ==
    \E p \in Procs : /\ FDone(p) /\ SomeRejected(flog[p])
                     /\ Signals(flog[p], "JobSuccess") = 1
                     /\ ReturnedStatus(fres[p], 200)

---------------------------------------------------------------------------
(* Properties of the Trigger (processing_trigger.lambda_handler).          *)

\* The notification carried a non-empty bucket and a non-empty key.
WellFormed == TDone /\ tin.bucket \notin {None, Some(<<>>)} /\ tin.key \notin {None, Some(<<>>)}
\* The key, of a notification that carries one.
TKey == The(tin.key)
\* The key contains the dataset marker; the key has the file extension.
HasMarker(k) == \E i \in 1..(Len(k) - 14) : SubSeq(k, i, i + 14) = U("yellow_tripdata")
HasExtension(k) == Len(k) >= 8 /\ SubSeq(k, Len(k) - 7, Len(k)) = U(".parquet")
\* At position i of k stands `lit` followed by n digits.  A digit, D below, is
\* a decimal digit of any script, as \d of the code's patterns matches it.
SegmentAt(k, i, lit, n) ==
    /\ i + Len(lit) + n - 1 <= Len(k)
    /\ SubSeq(k, i, i + Len(lit) - 1) = lit
    /\ \A j \in 0..(n - 1) : IsDigit(k[i + Len(lit) + j])
HasSegment(k, lit, n) == \E i \in 1..Len(k) : SegmentAt(k, i, lit, n)
\* The n digits of the first such segment of k.
FirstSegment(k, lit, n) ==
    Let(CHOOSE i \in 1..Len(k) :
            SegmentAt(k, i, lit, n) /\ \A h \in 1..(i - 1) : ~SegmentAt(k, h, lit, n),
        LAMBDA i : SubSeq(k, i + Len(lit), i + Len(lit) + n - 1))
\* The key lacks a year=DDDD segment or lacks a month=DD segment.
LacksPeriod(k) == ~HasSegment(k, U("year="), 4) \/ ~HasSegment(k, U("month="), 2)
\* No credential was fetched and the job API was not called.
NoDownstreamCalls == Count(tlog, "get_secret_value") = 0 /\ Count(tlog, "post") = 0

\* C7, as claimed: a notification with a non-empty bucket and key whose key
\* lacks a year=DDDD or a month=DD segment gets status 400, with no credential
\* fetch and no job-API call.  (Refuted: a key that is no yellow taxi parquet
\* file is skipped with status 200 before its segments are looked at.)
C7_Original ==
    (WellFormed /\ LacksPeriod(TKey)) =>
        ReturnedStatus(tres, 400) /\ NoDownstreamCalls
\* C7, amended: a notification with a non-empty bucket and key whose key
\* contains 'yellow_tripdata', ends with '.parquet' and lacks a year=DDDD or a
\* month=DD segment (D a decimal digit of any script) gets status 400, with no
\* credential fetch and no job-API call.
C7_MissingPeriodIsClientError ==
    (WellFormed /\ HasMarker(TKey) /\ HasExtension(TKey) /\ LacksPeriod(TKey)) =>
        ReturnedStatus(tres, 400) /\ NoDownstreamCalls
C7_Witness ==
    /\ WellFormed /\ HasMarker(TKey) /\ HasExtension(TKey)
    /\ HasSegment(TKey, U("year="), 4) /\ ~HasSegment(TKey, U("month="), 2)
    /\ ReturnedStatus(tres, 400)

\* C8: a notification with a non-empty bucket and key whose key does not
\* contain 'yellow_tripdata' or does not end with '.parquet' gets status 200,
\* with no credential fetch, no job-API call and no metric (neither
\* JobTriggered nor JobTriggerFailed).
C8_OtherFilesAreSkipped ==
    (WellFormed /\ (~HasMarker(TKey) \/ ~HasExtension(TKey))) =>
        /\ ReturnedStatus(tres, 200)
        /\ NoDownstreamCalls
        /\ Signals(tlog, "JobTriggered") = 0
        /\ Signals(tlog, "JobTriggerFailed") = 0
C8_Witness ==
    /\ WellFormed /\ HasMarker(TKey) /\ ~HasExtension(TKey)
    /\ HasSegment(TKey, U("year="), 4) /\ HasSegment(TKey, U("month="), 2)
    /\ ReturnedStatus(tres, 200)

\* The notification is valid: a yellow taxi parquet key with both segments.
ValidNotification ==
    /\ WellFormed /\ HasMarker(TKey) /\ HasExtension(TKey)
    /\ HasSegment(TKey, U("year="), 4) /\ HasSegment(TKey, U("month="), 2)
\* The credential fetch succeeded and the job API answered 200 with run id r.
Answered200(r) ==
    /\ Len(tin.secret) = 1 /\ tin.secret[1].resp = "ok"
    /\ Len(tin.post) = 1 /\ tin.post[1].status_code = 200
    /\ tin.post[1].json = Some([run_id |-> Some(r)])

\* C9: for a valid notification, a successful credential fetch and a 200
\* answer carrying run id r, the handler returns status 200 with run_id = r
\* and the year and month of the key's first year=DDDD and month=DD segments
\* (D a decimal digit of any script, handed on as written), and emits exactly
\* one JobTriggered metric and no JobTriggerFailed metric.
C9_TriggeredRunIsReported ==
    \A r \in RunIds : (ValidNotification /\ Answered200(r)) =>
        /\ ReturnedStatus(tres, 200)
        /\ The(tres.value).body.run_id = Some(r)
        /\ The(tres.value).body.year = FirstSegment(TKey, U("year="), 4)
        /\ The(tres.value).body.month = FirstSegment(TKey, U("month="), 2)
        /\ Signals(tlog, "JobTriggered") = 1
        /\ Signals(tlog, "JobTriggerFailed") = 0
C9_Witness ==
    /\ ValidNotification /\ Answered200(42)
    /\ Cardinality(MatchesAt(YEAR_EQ, 4, TKey)) = 2
    /\ The(tres.value).body.year = WIDE_2024
    /\ Signals(tlog, "JobTriggered") = 1

\* The job API answered with a status outside 200..299.
AnsweredNon2xx ==
    /\ Len(tin.post) = 1 /\ tin.post[1].resp = "response"
    /\ tin.post[1].status_code \notin 200..299

\* C10: for a valid notification, an answer of the job API with a non-2xx
\* status gives status 500, one JobTriggerFailed metric and no JobTriggered
\* metric, and the handler returns: nothing is raised past it.
C10_ApiErrorIsServerError ==
    (ValidNotification /\ AnsweredNon2xx) =>
        /\ tres.kind = "return"
        /\ ReturnedStatus(tres, 500)
        /\ Signals(tlog, "JobTriggerFailed") = 1
        /\ Signals(tlog, "JobTriggered") = 0
C10_Witness ==
    /\ ValidNotification /\ AnsweredNon2xx
    /\ tin.post[1].status_code = 500
    /\ Signals(tlog, "JobTriggerFailed") = 1

\* The credential fetch succeeded and the job API answered with a 2xx status
\* and a body carrying run id r.
Answered2xx(r) ==
    /\ Len(tin.secret) = 1 /\ tin.secret[1].resp = "ok"
    /\ Len(tin.post) = 1 /\ tin.post[1].resp = "response"
    /\ tin.post[1].status_code \in 200..299
    /\ tin.post[1].json = Some([run_id |-> Some(r)])
\* The handler reported the job API's answer as an error of the API.
ReportedApiError ==
    /\ ReturnedStatus(tres, 500)
    /\ Len(tin.post) = 1 /\ tin.post[1].resp = "response"
    /\ SubSeq(The(tres.value).body.error, 1, 21) = U("Databricks API error:")

\* C11: an answer of the job API counts as success exactly when its status is
\* in 200..299: for a valid notification, every 2xx answer carrying run id r
\* gives status 200 with run_id = r, and an answer is reported as an API error
\* only when its status is outside 200..299.
C11_Every2xxIsSuccess ==
    /\ \A r \in RunIds : (ValidNotification /\ Answered2xx(r)) =>
           /\ ReturnedStatus(tres, 200)
           /\ The(tres.value).body.run_id = Some(r)
    /\ (ValidNotification /\ ReportedApiError) => tin.post[1].status_code \notin 200..299

\* The invocation failed in the credential fetch; it failed in the job-API call.
CredentialFailed ==
    /\ ValidNotification /\ Count(tlog, "get_secret_value") = 1 /\ Count(tlog, "post") = 0
    /\ ReturnedStatus(tres, 500)
ApiFailed(res) == Count(res.log, "post") = 1 /\ ReturnedStatus(res, 500)
\* The names of the metrics a log emits.
MetricNames(log) == {Batches(log)[i].MetricData[1].MetricName : i \in DOMAIN Batches(log)}
\* The secret store's answer that carries the token.
GoodSecret == [resp |-> "ok", doc |-> Some([token |-> Some(TOKEN)]), err |-> <<>>]

\* C12: a credential failure and a job-API failure emit metrics of different
\* names: whenever an invocation fails in the credential fetch, no invocation
\* for the same notification that fails in the job-API call emits a metric of
\* the same name.
C12_FailureKindsHaveOwnMetrics ==
    CredentialFailed =>
        \A post \in PostAnswers :
            \E r \in {trigger_lambda_handler(
                          [tin EXCEPT !.secret = <<GoodSecret>>, !.post = <<post>>], <<>>)} :
                ApiFailed(r) => MetricNames(r.log) \cap MetricNames(tlog) = {}

---------------------------------------------------------------------------
(* The storage location of a period. *)

\* The keys an invocation probed or wrote; the keys it wrote are Written(log).
Keys(log) ==
    {log[i].Key : i \in {j \in DOMAIN log : log[j].call \in {"head_object", "upload_fileobj"}}}
\* The periods <<year, month>> an invocation's metrics name.
Periods(log) ==
    {<<Batches(log)[i].MetricData[1].Dimensions[1].Value,
       Batches(log)[i].MetricData[1].Dimensions[2].Value>> : i \in DOMAIN Batches(log)}
\* The location the specification gives a period under a prefix.
Location(prefix, period) ==
    prefix \o U("year=") \o period[1] \o U("/month=") \o period[2]
           \o U("/yellow_tripdata_") \o period[1] \o U("-") \o period[2] \o U(".parquet")
\* Slot p's invocation ended and named its period in a metric.
Named(p) == FDone(p) /\ Periods(flog[p]) # {}

\* C13: the existence check and the upload of one invocation, retries
\* included, use one key; that key is the location
\* {prefix}year={year}/month={month}/yellow_tripdata_{year}-{month}.parquet of
\* the invocation's period, with a two-digit month; and under one prefix two
\* invocations use the same key if and only if their periods are equal.
C13_LocationIsInjective ==
    /\ \A p \in Procs : Cardinality(Keys(flog[p])) <= 1
    /\ \A p \in Procs : Named(p) =>
           \A period \in Periods(flog[p]) :
               /\ Keys(flog[p]) = {Location(fin[p].prefix, period)}
               /\ Len(period[2]) = 2
    /\ \A p, q \in Procs : (Named(p) /\ Named(q)) =>
           (Keys(flog[p]) = Keys(flog[q]) <=> Periods(flog[p]) = Periods(flog[q]))
C13_Witness ==
    \E p, q \in Procs :
        /\ Named(p) /\ Named(q)
        /\ Count(flog[p], "get") = 3 /\ Written(flog[p]) # {}
        /\ Written(flog[q]) # {}
        /\ Periods(flog[p]) = {<<U("2024"), U("01")>>}
        /\ Periods(flog[q]) = {<<U("2024"), U("12")>>}

---------------------------------------------------------------------------
(* The period an invocation targets, and its existence check. *)

\* The calendar month before the month of the date `now`, as year and
\* two-digit month.
PreviousMonth(now) ==
    IF now[2] = 1 THEN <<str(now[1] - 1), U("12")>>
    ELSE <<str(now[1]), IF now[2] - 1 < 10 THEN U("0") \o str(now[2] - 1) ELSE str(now[2] - 1)>>
\* Slot p's invocation has made its existence check.
Probed(p) == fpc[p] \in {"checked", "done"}

\* C14: whatever the invocation time, the period an invocation targets (the
\* one whose location it probes) is the calendar month before the month of
\* `now`, December of the year before when `now` is in January.
C14_TargetsPreviousMonth ==
    \A p \in Procs : Probed(p) =>
        Keys(flog[p]) = {Location(fin[p].prefix, PreviousMonth(fin[p].now))}

\* C15: the existence check never throws: when the probe answers anything but
\* found (not found, a service error, a connection error) the check yields
\* false and the invocation goes on to the download.
C15_ProbeErrorsMeanAbsent ==
    \A p \in Procs :
        (FDone(p) /\ fin[p].probe[1] \in {"404", "403", "EndpointConnectionError"}) =>
            /\ Count(flog[p], "get") >= 1
            /\ fres[p].exc \notin {"EndpointConnectionError", "TypeError"}

---------------------------------------------------------------------------
(* Retries of the download. *)

\* The downloads, uploads and delays of a log, in order.
Attempts(log) == SelectSeq(log, LAMBDA e : e.call \in {"get", "upload_fileobj", "sleep"})
\* The storage write of slot p's invocation failed.
UploadFailed(p) ==
    \E i \in DOMAIN flog[p] :
        flog[p][i].call = "upload_fileobj" /\ flog[p][i].resp # "ok"

\* C16: an invocation makes at most 3 download attempts; a further attempt
\* follows only a failed HTTP fetch (and its delay); and a failed storage
\* write is followed by no attempt, delay or write: fetch-and-store ends at
\* once in failure, with one Failure batch and no JobSuccess.
C16_OnlyFetchFailuresAreRetried ==
    \A p \in Procs : FDone(p) =>
        \E a \in {Attempts(flog[p])} :
            /\ Count(flog[p], "get") <= 3
            /\ \A i \in DOMAIN a : (a[i].call = "get" /\ i > 1) =>
                   /\ i > 2
                   /\ a[i - 1].call = "sleep"
                   /\ a[i - 2].call = "get" /\ FetchError(a[i - 2])
            /\ \A i \in DOMAIN a : (a[i].call = "upload_fileobj" /\ a[i].resp # "ok") =>
                   /\ i = Len(a)
                   /\ Written(flog[p]) = {}
                   /\ Signals(flog[p], "JobSuccess") = 0
                   /\ Len(PerfBatches(flog[p], FAILURE)) = 1
                   /\ Len(PerfBatches(flog[p], SUCCESS)) = 0
C16_Witness ==
    \E p \in Procs : /\ FDone(p) /\ UploadFailed(p)
                     /\ Count(flog[p], "get") = 2
                     /\ Count(flog[p], "upload_fileobj") = 1

---------------------------------------------------------------------------
(* One download per period. *)

\* The location of the period an invocation with inputs `in` targets: the
\* month of the day 30 days before `now`.
TargetLocation(in) ==
    Let(minus_days(in.now, 30), LAMBDA t :
        Location(in.prefix, <<str(t[1]), IF t[2] < 10 THEN U("0") \o str(t[2]) ELSE str(t[2])>>))
\* The probe of an invocation with inputs `in` was answered truthfully: found
\* or not found.
TruthfulProbe(in) == Len(in.probe) = 1 /\ in.probe[1] \in {"200", "404"}

\* C17: invocations do not overlap and the probe is answered truthfully.
\* Once an invocation has stored the object of period P, every later
\* invocation for P ends skipped: its probe, made while the bucket holds the
\* object, answers found; from then on it makes no HTTP download and no
\* storage write and leaves the bucket unchanged; and it ends with JobSkipped
\* and status 200.
C17_FetchedOncePerPeriod ==
    [][\A p \in Procs :
          /\ (/\ fpc[p] = "invoked" /\ fpc'[p] = "checked"
              /\ TruthfulProbe(fin'[p])
              /\ TargetLocation(fin[p]) \in s3) => fin'[p].probe = <<"200">>
          /\ (/\ fpc[p] = "checked" /\ fpc'[p] \in {"checked", "done"}
              /\ fin[p].probe = <<"200">>
              /\ flog'[p] # flog[p]) =>
                 /\ Count(flog'[p], "get") = 0
                 /\ Count(flog'[p], "upload_fileobj") = 0
                 /\ s3' = s3
                 /\ fpc'[p] = "done" => /\ Signals(flog'[p], "JobSkipped") = 1
                                        /\ ReturnedStatus(fres'[p], 200)]_vars
C17_Witness ==
    \E p \in Procs : /\ FDone(p) /\ TruthfulProbe(fin[p])
                     /\ TargetLocation(fin[p]) \in s3
                     /\ Written(flog[p]) = {}
                     /\ fin[p].now = <<2024, 3, 1>>
                     /\ Cardinality(s3) = 2

---------------------------------------------------------------------------
(* Two invocations at the same time. *)

\* Slot p's invocation passed the existence check (the object was absent) and
\* stored an object.
PassedAndWrote(p) == FDone(p) /\ fin[p].probe = <<"404">> /\ Written(flog[p]) # {}
\* The stored objects of a period.
ObjectsOf(period) ==
    {k \in s3 : \E i \in 1..Len(k) :
        \E seg \in {U("year=") \o period[1] \o U("/month=") \o period[2] \o U("/")} :
            i + Len(seg) - 1 <= Len(k) /\ SubSeq(k, i, i + Len(seg) - 1) = seg}

\* C18: nothing keeps two invocations for one period apart.  Whenever both
\* have passed the existence check and both have stored an object, they wrote
\* the same key, the bucket holds one object for the period, and both return
\* status 200 after JobSuccess.
C18_LastWriterWins ==
    \A p, q \in Procs :
        (/\ p # q /\ PassedAndWrote(p) /\ PassedAndWrote(q)
         /\ Periods(flog[p]) = Periods(flog[q])) =>
            /\ Written(flog[p]) = Written(flog[q])
            /\ \A period \in Periods(flog[p]) : Cardinality(ObjectsOf(period)) = 1
            /\ ReturnedStatus(fres[p], 200) /\ ReturnedStatus(fres[q], 200)
            /\ Signals(flog[p], "JobSuccess") = 1 /\ Signals(flog[q], "JobSuccess") = 1
C18_Witness ==
    \E p, q \in Procs :
        /\ p # q /\ PassedAndWrote(p) /\ PassedAndWrote(q)
        /\ Periods(flog[p]) = Periods(flog[q])
        /\ fin[p].now # fin[q].now
        /\ Count(flog[p], "get") = 1 /\ Count(flog[q], "get") = 2

---------------------------------------------------------------------------
(* The Trigger's downstream calls. *)

\* The positions of the calls `c` in the Trigger's log.
CallsAt(c) == {i \in DOMAIN tlog : tlog[i].call = c}
\* The credential fetch of the invocation was made and gave no token.
CredentialFetchFailed ==
    /\ TDone /\ Len(tin.secret) = 1
    /\ \/ tin.secret[1].resp # "ok"
       \/ tin.secret[1].doc = None
       \/ The(tin.secret[1].doc).token = None

\* C19: a Trigger invocation makes at most one credential fetch and at most
\* one POST to the job API; a POST comes only after a credential fetch of the
\* invocation that gave a token; and when the credential fetch fails no POST
\* is made and the handler returns status 500.
C19_OneFetchOnePost ==
    TDone =>
        /\ Cardinality(CallsAt("get_secret_value")) <= 1
        /\ Cardinality(CallsAt("post")) <= 1
        /\ \A j \in CallsAt("post") :
               /\ \E i \in CallsAt("get_secret_value") : i < j /\ tlog[i].resp = "ok"
               /\ ~CredentialFetchFailed
               /\ tlog[j].headers.Authorization = U("Bearer ") \o The(The(tin.secret[1].doc).token)
        /\ CredentialFetchFailed => CallsAt("post") = {} /\ ReturnedStatus(tres, 500)
C19_Witness ==
    /\ CredentialFetchFailed /\ tin.secret[1].resp = "ok"
    /\ CallsAt("get_secret_value") = {1}
    /\ ReturnedStatus(tres, 500)

---------------------------------------------------------------------------
(* From the Fetcher's key to the Trigger's period. *)

\* The prefix contains no year=DDDD and no month=DD, D a decimal digit of any
\* script.
PlainPrefix(prefix) == ~HasSegment(prefix, U("year="), 4) /\ ~HasSegment(prefix, U("month="), 2)
\* The Fetcher run at `now` under `prefix` in which the object is absent and
\* the first download and the upload succeed.
StoringRun(prefix, now) ==
    ingestion_lambda_handler(
        [prefix |-> prefix, now |-> now, probe |-> <<"404">>,
         http |-> <<[resp |-> "200", dur |-> 1, clen |-> 0]>>,
         upload |-> <<[resp |-> "ok", dur |-> 1]>>], <<>>)
\* The Trigger was notified of the key that the Fetcher run `r` stored.
NotifiedOf(r) == WellFormed /\ Written(r.log) = {TKey}

\* C20: under a prefix with no year=DDDD and no month=DD in it, the key the
\* Fetcher stores for a period passes the Trigger's validation (the handler
\* goes on to the credential fetch and the POST), and the year and month the
\* Trigger sends as source_year and source_month, and returns, are the
\* Fetcher's year and two-digit month.
C20_StoredKeyRoundTrips ==
    \A p \in Procs : \A now \in WideNows :
        (WellFormed /\ PlainPrefix(fin[p].prefix)) =>
            \E r \in {StoringRun(fin[p].prefix, now)} :
                NotifiedOf(r) =>
                \A period \in Periods(r.log) :
                    /\ ~ReturnedStatus(tres, 400)
                    /\ CallsAt("get_secret_value") # {}
                    /\ CallsAt("post") # {}
                    /\ \A j \in CallsAt("post") :
                           /\ tlog[j].json.notebook_params.source_year = period[1]
                           /\ tlog[j].json.notebook_params.source_month = period[2]
                           /\ tlog[j].json.notebook_params.source_key = TKey
                    /\ ReturnedStatus(tres, 200) =>
                           /\ The(tres.value).body.year = period[1]
                           /\ The(tres.value).body.month = period[2]
C20_Witness ==
    /\ WellFormed /\ ReturnedStatus(tres, 200)
    /\ \A p \in Procs : fin[p].prefix = <<>>
    /\ \E j \in CallsAt("post") :
           /\ tlog[j].json.notebook_params.source_year = U("2024")
           /\ tlog[j].json.notebook_params.source_month = U("01")

===========================================================================
